---- MODULE Spec2Model ----
(***************************************************************************)
(* State-machine model of the trade-svc swap pipeline:                     *)
(*   - dexSwap with balance preflight and retry loop (dex.ts),             *)
(*   - the provider fallback client getQuote / buildSwapTx                 *)
(*     (metis-jupiter.ts),                                                 *)
(*   - the record-keeping dexSwap of the compiled build (dist),            *)
(*   - the POST /pumpfun/swap handler with its Jito bundle path (index.ts),*)
(*   - the in-memory Trade Record store (db.ts),                           *)
(*   - the POST /dex/swap handler with its fee resolution (index.ts).      *)
(* Spec handles one request by one of the swap functions; SpecClient runs  *)
(* getQuote or buildSwapTx on its own, request by request; SpecHttp runs   *)
(* POST /dex/swap with every combination of fee inputs.                    *)
(* One request is handled per behaviour; which entry point handles it is   *)
(* chosen in Init.  Upstream services (quote/build providers, RPC node,    *)
(* bundle relay) are the environment: every call draws its outcome from a  *)
(* small set.  Error messages are token sequences so that the retry regex  *)
(* is computed on the message text and not assumed.                        *)
(***************************************************************************)
EXTENDS Integers, Sequences, FiniteSets, TLC

VARIABLES
    kind,       \* entry point handling the request: "dex" | "rk" | "pf"
    pc,         \* position of the handler
    req,        \* the request parameters (immutable once accepted)
    frame,      \* locals of ensureSufficientBalances while it runs
    tokenCheck, \* what happened inside the token-balance try block
    attempt,    \* loop variable of dexSwap's retry loop (0-based)
    bi,         \* index into BASES of the provider loop in progress
    qErr,       \* getQuote's local lastErr
    lastErr,    \* dexSwap's lastErr
    landed,     \* the current attempt's transaction is confirmed on chain
    onchain,    \* attempts whose transaction is confirmed on chain
    quoteReqs,  \* upstream quote requests sent in the current attempt
    buildReqs,  \* upstream build requests sent in the current attempt
    simCalls,   \* simulateTransaction calls of the current attempt
    sendCalls,  \* sendRawTransaction calls of the current attempt
    confCalls,  \* confirmTransaction calls of the current attempt
    relayCalls, \* sendBundle calls to the relay
    sleeps,     \* backoff sleeps taken
    fails,      \* attempts that ended in dexSwap's catch block
    cause,      \* class of the upstream failure that ended the last failed attempt
    netDown,    \* environment: every quote/build provider is unreachable
    timedOut,   \* every call of the provider loop in progress, or of the one that
                \* ended the attempt, exceeded its timeout
    result,     \* what the swap function returned or threw
    useMongo,   \* the Trade store is the Mongo model (else the in-memory map)
    trade,      \* the request's Trade Record in the store, or NoRecord
    writes,     \* statuses written by findByIdAndUpdate, in order
    resp,       \* the HTTP response sent by the handler, or NoResp
    conf,       \* process.env as read by metis-jupiter.ts at load time
    call,       \* locals of a getQuote / buildSwapTx call made on its own
    wire,       \* the requests that call has sent, with their answers
    tiers,      \* the DEX_CU_PRICE_MICRO_* globals of index.ts
    setAns,     \* the answer to the last POST /settings/priority
    db,         \* the module state of db.ts and the last call served
    meta,       \* the module state of meta.ts, the clock and the calls in flight
    fee,        \* the fee inputs of the request and what they resolve to
    tradeLocal, \* the payloads posted to the trade-local API, in order
    relayAns,   \* the relay's answer to sendBundle, or "none"
    simAns,     \* what the simulation of /pumpfun/swap came to, or "none"
    bundle,     \* arr and signedList of the bundle branch of /pumpfun/swap
    relayed     \* the lists posted to the relay, in order

vars == <<kind, pc, req, frame, tokenCheck, attempt, bi, qErr, lastErr, landed,
          onchain, quoteReqs, buildReqs, simCalls, sendCalls, confCalls,
          relayCalls, sleeps, fails, cause, netDown, timedOut, result, useMongo, trade, writes,
          resp, conf, call, wire, db, meta, setAns, tiers, fee, tradeLocal, relayAns,
          simAns, bundle, relayed>>

----------------------------------------------------------------------------
(* Bounds of the model *)

\* requests resolving token metadata at once
MaxCallers == 2
\* ticks of the clock of the metadata cache
MaxNow == 4
\* ticks an entry of the metadata cache lives
TtlTicks == 2

\* most Trade Records the store model holds
MaxRecords == 3

\* largest raw amount a request asks for
MaxAmount == 1
\* largest number of token accounts returned by the token-account lookup
MaxAccounts == 2
\* value the RPC node reports for getMinimumBalanceForRentExemption(165)
RentAta == 2039280
\* largest bundleCount a /pumpfun/swap request asks for
MaxBundle == 3

----------------------------------------------------------------------------
(* Program constants *)

\* let required = 10_000
BaseFee == 10000
\* for (let attempt = 0; attempt < 3; attempt++)
MaxAttempts == 3
\* attempt === 2
LastAttempt == 2

\* BASES = [PUBLIC_JUP, METIS_BASE, JUP_LITE, JUP_PRO].filter(Boolean)
\* with METIS_BASE unset (its default is the empty string)
BASES == <<"PUBLIC_JUP", "JUP_LITE", "JUP_PRO">>

NoFrame == [on |-> FALSE]
NoRecord == [status |-> "none", signature |-> "none"]
NoResp == [code |-> "none"]
NoResult == [tag |-> "none"]
NoMsg == << >>
NoCall == [fn |-> "none"]
NoRequest == [amount |-> 0]
NoBundle == [built |-> FALSE, arr |-> << >>, signedList |-> << >>]

----------------------------------------------------------------------------
(* Error values and messages *)

\* A thrown value: an AxiosError carries request/response, a plain Error
\* only a message.
PlainError(msg) == [response |-> "none", request |-> FALSE, code |-> "none", message |-> msg]
AxiosNetError(code) ==
    [response |-> "none", request |-> TRUE, code |-> code, message |-> <<code>>]

\* mapAxiosErr(e): text of an error
mapAxiosErr(e) ==
    IF e.response # "none" THEN <<"HTTP", e.response, "body">>
    ELSE IF e.request THEN <<"network_error", "to", "url", e.code>>
    ELSE e.message

FiveXX == {"500", "502", "503", "504"}

\* /network_error|HTTP 5\d\d|429/.test(lastErr); a message is a sequence of
\* words, the body of an upstream answer being the one opaque word "body"
RetryRegex(msg) ==
    \E i \in 1..Len(msg) :
        \/ msg[i] = "network_error"
        \/ msg[i] = "429"
        \/ (msg[i] = "HTTP" /\ i < Len(msg) /\ msg[i + 1] \in FiveXX)

\* mutant: the test for the last attempt is missing
ShouldRethrow_NoBound(msg, att) == ~RetryRegex(msg)

\* mutant: the catch block never throws the error on
ShouldRethrow_Never(msg, att) == FALSE

\* if (!/.../.test(lastErr) || attempt === 2) throw new Error(lastErr)
ShouldRethrow(msg, att) == ~RetryRegex(msg) \/ att = LastAttempt

----------------------------------------------------------------------------
(* The signer input: keyBytes of dex.ts, keypairFromInput of solana.ts and  *)
(* the decoding inside the compiled dexSwap.  A privateKey text is the way  *)
(* it is written, the number of bytes it writes, and whether a hex text     *)
(* holds the digit 0, which is not a base58 digit.                          *)

\* if (secret.length !== 64)
SecretKeyLength == 64

KeyLengths == {32, SecretKeyLength, SecretKeyLength + 1}

Keys ==
    [form : {"array", "base58", "0xhex"}, bytes : KeyLengths, zero : {FALSE}]
    \cup [form : {"hex"}, bytes : KeyLengths, zero : BOOLEAN]
    \cup [form : {"other"}, bytes : {0}, zero : {FALSE}]

\* the keys of the requests that do not vary the encoding
PlainKeys == {[form |-> "base58", bytes |-> n, zero |-> FALSE] : n \in {32, SecretKeyLength}}

Decoded(n) == [ok |-> TRUE, len |-> n]
KeyError(msg) == [ok |-> FALSE, msg |-> msg]

\* bytes written by a base58 text without leading 1s: a base58 digit carries
\* log(58) / log(256) of a byte
Base58Bytes(chars) == (chars * 733) \div 1000

\* bs58.decode(text): a character outside the alphabet throws; a hex text
\* without the digit 0 is a base58 text of twice as many digits
Bs58Decode(k) ==
    IF k.form = "base58" THEN Decoded(k.bytes)
    ELSE IF k.form = "hex" /\ ~k.zero THEN Decoded(Base58Bytes(2 * k.bytes))
    ELSE KeyError(<<"Non-base58", "character">>)

\* Keypair.fromSecretKey(bytes) of web3.js
FromSecretKey(d) ==
    IF d.len = SecretKeyLength THEN d ELSE KeyError(<<"bad", "secret", "key", "size">>)

\* keyBytes(input), part_002 lines 35-48: JSON array, hex with optional 0x,
\* base58; any exception becomes 'invalid private key format'
keyBytes(k) ==
    IF k.form = "array" THEN Decoded(k.bytes)
    ELSE IF k.form \in {"hex", "0xhex"} THEN Decoded(k.bytes)
    ELSE IF Bs58Decode(k).ok THEN Bs58Decode(k)
    ELSE KeyError(<<"invalid", "private", "key", "format">>)

\* Keypair.fromSecretKey(keyBytes(privateKey)), part_002 line 184
DexKey(k) == IF keyBytes(k).ok THEN FromSecretKey(keyBytes(k)) ELSE keyBytes(k)

\* keypairFromInput(input), solana.js lines 4-15, and lines 156-162 of the
\* compiled dexSwap: JSON array or base58, then the length test with the
\* caller's message
keypairFromInput(k, msg) ==
    LET secret == IF k.form = "array" THEN Decoded(k.bytes) ELSE Bs58Decode(k)
    IN  IF ~secret.ok THEN secret
        ELSE IF secret.len # SecretKeyLength THEN KeyError(msg)
        ELSE secret

----------------------------------------------------------------------------
(* Requests and environment outcomes *)

Kinds == {"dex", "rk", "pf"}

\* SwapParams of dexSwap; amount 0 stands for a missing amountLamports
DexRequests ==
    [key : PlainKeys, inputNative : BOOLEAN, outputNative : BOOLEAN,
     amount : 0..MaxAmount, forceLegacy : BOOLEAN, useJito : {FALSE}]

RECURSIVE SumSeq(_)
SumSeq(s) == IF s = << >> THEN 0 ELSE Head(s) + SumSeq(Tail(s))

\* resp.value of getParsedTokenAccountsByOwner: the raw amount of each account
AccountLists == UNION {[1..n -> 0..MaxAmount] : n \in 0..MaxAccounts}

\* mutant: the rent of the temporary WSOL account is forgotten
Required_NoWsolRent(inNative, outNative, amount, rent, info) ==
    BaseFee
    + (IF inNative THEN amount ELSE 0)
    + (IF ~outNative /\ info = "missing" THEN rent ELSE 0)

\* required = 10_000 (+ amountRaw + rentAta) (+ rentAta), lines 114-129;
\* info is what the try block around getAccountInfo produced
Required(inNative, outNative, amount, rent, info) ==
    BaseFee
    + (IF inNative THEN amount + rent ELSE 0)
    + (IF ~outNative /\ info = "missing" THEN rent ELSE 0)

\* the try block of lines 123-128: getAccountInfo returns the account, null,
\* or the block throws (unparsable mint, RPC error) and the catch ignores it
LookupInfo(ok, exists) ==
    IF ~ok THEN "error" ELSE IF exists THEN "exists" ELSE "missing"

\* every value required can take, and the balances around each of them
PossibleRequired ==
    {Required(i, o, a, RentAta, inf) :
        i \in BOOLEAN, o \in BOOLEAN, a \in 1..MaxAmount,
        inf \in {"exists", "missing", "error"}}
Balances == UNION {{r - 1, r} : r \in PossibleRequired}

\* mutant: the comparison is off by one
BalanceLow_OffByOne(bal, required) == bal + 1 < required

\* if (balLamports < required) throw balance_low
BalanceLow(bal, required) == bal < required

\* the try block of lines 141-155
TokenTry(lookupOk, accts, amount) ==
    IF ~lookupOk THEN "lookup_error"
    ELSE IF SumSeq(accts) < amount THEN "token_balance_low"
    ELSE "ok"

\* mutant: the catch block rethrows a failed lookup
TokenCatch_Rethrow(inner) == IF inner = "lookup_error" THEN "throw" ELSE "continue"

\* catch (e) { } of lines 156-158: whatever the try block threw is dropped
TokenCatch(inner) == "continue"

\* answers of a quote provider: a route, 200 without a route, an error
\* status, or no answer (connection error, timeout)
QuoteResponses == {"route", "200", "400", "429", "500", "neterr", "timeout"}
NetCode(r) == IF r = "timeout" THEN "ECONNABORTED" ELSE "ECONNREFUSED"

\* getQuote's lastErr after a provider did not give a route, lines 75-77
QuoteErrText(r) ==
    IF r \in {"neterr", "timeout"} THEN mapAxiosErr(AxiosNetError(NetCode(r)))
    ELSE <<"quote", r, "body">>

\* answers of a build provider
BuildResponses == {"tx", "200", "400", "422", "429", "500", "neterr", "timeout"}

\* messages of the errors web3.js throws from sendRawTransaction
SendErrors ==
    {<<"429", "Too Many Requests">>, <<"503", "Service Unavailable">>,
     <<"fetch", "failed">>, <<"Transaction", "simulation", "failed">>}
\* messages of the errors web3.js throws from confirmTransaction
ConfirmErrors ==
    {<<"429", "Too Many Requests">>, <<"fetch", "failed">>,
     <<"Transaction", "was", "not", "confirmed">>}

ErrResult(msg) == [tag |-> "error", msg |-> msg]

\* what the environment did when a provider call failed: no answer, an HTTP
\* 5xx, an HTTP 429, or anything else
AnswerClass(r) ==
    IF r \in {"neterr", "timeout"} THEN "net"
    ELSE IF r \in FiveXX THEN "5xx"
    ELSE IF r = "429" THEN "429"
    ELSE "other"
RpcErrClass(m) ==
    IF m[1] = "fetch" THEN "net" ELSE AnswerClass(m[1])

\* the answers the environment can give to a provider call
Answers(S) == IF netDown THEN S \cap {"neterr", "timeout"} ELSE S

----------------------------------------------------------------------------
(* Provider URLs, as character strings *)

\* 'https://api.jup.ag/swap/v1'
JUP_PRO ==
    <<"h", "t", "t", "p", "s", ":", "/", "/", "a", "p", "i", ".", "j", "u",
      "p", ".", "a", "g", "/", "s", "w", "a", "p", "/", "v", "1">>
\* 'https://lite-api.jup.ag/swap/v1'
JUP_LITE ==
    <<"h", "t", "t", "p", "s", ":", "/", "/", "l", "i", "t", "e", "-", "a",
      "p", "i", ".", "j", "u", "p", ".", "a", "g", "/", "s", "w", "a", "p",
      "/", "v", "1">>
\* 'https://quote-api.jup.ag/v6'
PUBLIC_JUP ==
    <<"h", "t", "t", "p", "s", ":", "/", "/", "q", "u", "o", "t", "e", "-",
      "a", "p", "i", ".", "j", "u", "p", ".", "a", "g", "/", "v", "6">>
\* a self-hosted Metis endpoint, when METIS_BASE is set
METIS_BASE ==
    <<"h", "t", "t", "p", ":", "/", "/", "m", "e", "t", "i", "s", ".", "l",
      "o", "c", "a", "l", ":", "8", "0", "8", "0">>

Url(b) ==
    CASE b = "JUP_PRO" -> JUP_PRO
      [] b = "JUP_LITE" -> JUP_LITE
      [] b = "PUBLIC_JUP" -> PUBLIC_JUP
      [] b = "METIS_BASE" -> METIS_BASE

\* [PUBLIC_JUP, METIS_BASE, JUP_LITE, JUP_PRO].filter(Boolean): an unset
\* METIS_BASE is the empty string and is dropped
BasesOf(c) ==
    SelectSeq(<<"PUBLIC_JUP", "METIS_BASE", "JUP_LITE", "JUP_PRO">>,
              LAMBDA b : b # "METIS_BASE" \/ c.metis)

\* the pattern of /api\.jup\.ag/
ApiJupAg ==
    <<"a", "p", "i", ".", "j", "u", "p", ".", "a", "g">>

\* RegExp.test for a pattern of literal characters: the pattern occurs
\* somewhere in the text
Test(pat, text) ==
    \E i \in 1..(Len(text) - Len(pat) + 1) : SubSeq(text, i, i + Len(pat) - 1) = pat

----------------------------------------------------------------------------
(* Priority fee: the values, the tiers and the conversions *)

\* a JavaScript value that is undefined, a finite number or Infinity; a
\* priorityFee is in SOL and is held here in lamports (1e-9 SOL)
Undefined == [t |-> "undefined", v |-> 0]
Infinity == [t |-> "Infinity", v |-> 0]
Num(n) == [t |-> "number", v |-> n]

\* typeof x === 'number'
IsNumber(x) == x.t \in {"number", "Infinity"}
\* x > 0 and x >= 0; undefined compares false
Gt0(x) == x.t = "Infinity" \/ (x.t = "number" /\ x.v > 0)
Ge0(x) == x.t = "Infinity" \/ (x.t = "number" /\ x.v >= 0)

LamportsPerSol == 1000000000
\* const BASELINE_CU_FOR_1_SOL = 5_000_000
BASELINE_CU_FOR_1_SOL == 5000000

\* parseInt(process.env.DEX_CU_PRICE_MICRO_FAST || '500', 10) and the like
DEX_CU_PRICE_MICRO_FAST == 500
DEX_CU_PRICE_MICRO_TURBO == 2000
DEX_CU_PRICE_MICRO_ULTRA == 10000
\* values of process.env.DEX_CU_PRICE_MICRO: unset ('0') or set
TierDefaults == {0, 300}

EnvTiers(d) ==
    [default |-> d, fast |-> DEX_CU_PRICE_MICRO_FAST,
     turbo |-> DEX_CU_PRICE_MICRO_TURBO, ultra |-> DEX_CU_PRICE_MICRO_ULTRA]

\* String(tier).toLowerCase(), on the tier names a request carries
ToLowerCase(tier) ==
    CASE tier = "ULTRA" -> "ultra"
      [] OTHER -> tier

\* n || undefined
OrUndefined(n) == IF n = 0 THEN Undefined ELSE Num(n)

\* chooseCuPrice(tier), index.ts lines 45-52; no tier is the empty string
chooseCuPrice(t, tier) ==
    IF tier = "" THEN OrUndefined(t.default)
    ELSE LET l == ToLowerCase(tier)
         IN  IF l = "fast" THEN Num(t.fast)
             ELSE IF l = "turbo" THEN Num(t.turbo)
             ELSE IF l = "ultra" THEN Num(t.ultra)
             ELSE OrUndefined(t.default)

\* mutant: the compute-unit price is looked at before the SOL amount
ResolveFee_CuFirst(in, t) ==
    IF IsNumber(in.computeUnitPriceMicroLamports) /\ Ge0(in.computeUnitPriceMicroLamports)
    THEN [priorityFee |-> Undefined, cu |-> in.computeUnitPriceMicroLamports]
    ELSE IF IsNumber(in.priorityFee) /\ Gt0(in.priorityFee)
    THEN [priorityFee |-> in.priorityFee, cu |-> Undefined]
    ELSE [priorityFee |-> Undefined, cu |-> chooseCuPrice(t, in.priorityTier)]

\* mutant: the fee always comes from the tier table
ResolveFee_TierOnly(in, t) ==
    [priorityFee |-> Undefined, cu |-> chooseCuPrice(t, in.priorityTier)]

\* the fee resolution of POST /dex/swap, index.ts lines 197-215: the
\* priorityFee and computeUnitPriceMicroLamports it passes to dexSwap
ResolveFee(in, t) ==
    IF IsNumber(in.priorityFee) /\ Gt0(in.priorityFee)
    THEN [priorityFee |-> in.priorityFee, cu |-> Undefined]
    ELSE IF IsNumber(in.computeUnitPriceMicroLamports)
            /\ Ge0(in.computeUnitPriceMicroLamports)
    THEN [priorityFee |-> Undefined, cu |-> in.computeUnitPriceMicroLamports]
    ELSE [priorityFee |-> Undefined, cu |-> chooseCuPrice(t, in.priorityTier)]

Max(a, b) == IF a >= b THEN a ELSE b

\* mutant: the minimum of 1 is missing
computeFromSol_NoMinimum(pf) ==
    IF pf.t = "Infinity" THEN Infinity
    ELSE Num(pf.v \div (LamportsPerSol \div BASELINE_CU_FOR_1_SOL))

\* computeFromSol(pf) = Math.max(1, Math.floor(pf * BASELINE_CU_FOR_1_SOL));
\* with pf = v / LamportsPerSol the product is v / (LamportsPerSol /
\* BASELINE_CU_FOR_1_SOL), the divisor being the whole number 200
computeFromSol(pf) ==
    IF pf.t = "Infinity" THEN Infinity
    ELSE Num(Max(1, pf.v \div (LamportsPerSol \div BASELINE_CU_FOR_1_SOL)))

\* dexSwap's computeUnitPriceMicroLamports, part_002 lines 171-174 and
\* 203-204: priorityFee defaults to 0,
\* computeOverride ?? (priorityFee > 0 ? computeFromSol(priorityFee) : undefined)
DexFee(arg) ==
    LET priorityFee == IF arg.priorityFee = Undefined THEN Num(0) ELSE arg.priorityFee
    IN  IF arg.cu # Undefined THEN arg.cu
        ELSE IF Gt0(priorityFee) THEN computeFromSol(priorityFee)
        ELSE Undefined

\* mutant: the fee is resolved again, from the tiers, in every attempt
AttemptFee_Reresolve(f, t) == DexFee(ResolveFee(f.in, t))

\* computeUnitPriceMicroLamports of the buildSwapTx call, line 228: the
\* constant computed before the retry loop (lines 203-204), whatever the
\* tier globals hold by then
AttemptFee(f, t) == f.cu

\* the fee fields of a build request body; NoFee when none is set
NoFee == [prioritizationFeeLamports |-> Undefined,
          computeUnitPriceMicroLamports |-> Undefined]

\* 'quote-api.jup.ag'
QuoteApiHost ==
    <<"q", "u", "o", "t", "e", "-", "a", "p", "i",
      ".", "j", "u", "p", ".", "a", "g">>

\* Math.round((x * 10) / 1000)
RoundTenPerMille(x) ==
    IF x.t = "Infinity" THEN Infinity ELSE Num((x.v * 10 + 500) \div 1000)

\* addPriorityFeeToBody(body, base) of buildSwapTx, metis-jupiter.ts lines
\* 92-113, as the fee fields it sets
addPriorityFeeToBody(priorityFeeLamports, cu, base) ==
    IF priorityFeeLamports # Undefined
    THEN IF Test(QuoteApiHost, base)
         THEN [NoFee EXCEPT !.prioritizationFeeLamports = priorityFeeLamports]
         ELSE [NoFee EXCEPT !.computeUnitPriceMicroLamports =
                              RoundTenPerMille(priorityFeeLamports)]
    ELSE IF cu # Undefined
    THEN [NoFee EXCEPT !.computeUnitPriceMicroLamports = cu]
    ELSE NoFee

\* the fee fields of a request body: none for a direct call of dexSwap
NoFeeInput == [priorityFee |-> Undefined, computeUnitPriceMicroLamports |-> Undefined,
               priorityTier |-> ""]
FeeInputs ==
    [priorityFee : {Undefined, Num(-1), Num(0), Num(100), Num(100000), Infinity},
     computeUnitPriceMicroLamports : {Undefined, Num(-1), Num(0), Num(7)},
     priorityTier : {"", "fast", "ULTRA", "bogus"}]

FeeOf(http, in) ==
    [http |-> http, in |-> in, arg |-> [priorityFee |-> Undefined, cu |-> Undefined],
     cu |-> Undefined, sent |-> NoFee]

----------------------------------------------------------------------------
(* dexSwap of dex.ts: validation, preflight, retry loop *)

client == <<conf, call, wire>>
pump == <<tradeLocal, relayAns, simAns, bundle, relayed>>
counters == <<quoteReqs, buildReqs, simCalls, sendCalls, confCalls, relayCalls, sleeps>>
store == <<useMongo, trade, writes, resp>>
chain == <<landed, onchain>>

\* mutant: an error starts the pipeline again at the quote
Throw_Restart(msg) ==
    /\ pc' = "quote"
    /\ result' = ErrResult(msg)

\* an error leaves dexSwap outside the retry loop's try block
Throw(msg) ==
    /\ pc' = "done"
    /\ result' = ErrResult(msg)

\* lines 177-184: the field check, then Keypair.fromSecretKey(keyBytes(..))
DexEnter ==
    /\ kind = "dex" /\ pc = "start"
    /\ IF req.amount = 0 THEN Throw(<<"missing", "fields">>)
       ELSE IF ~DexKey(req.key).ok THEN Throw(DexKey(req.key).msg)
       ELSE pc' = "pre_native" /\ result' = result
    /\ UNCHANGED <<client, pump, db, meta, setAns, tiers, fee, kind, req, netDown, timedOut, frame, tokenCheck, attempt, bi, qErr, lastErr,
                   fails, cause, counters, store, chain>>

\* mutant: under ExactOut the amount is taken for the amount to receive, so
\* nothing is known to be spent
BalanceOpts_ByMode(r) ==
    [inputNative |-> r.inputNative, outputNative |-> r.outputNative,
     amountRaw |-> IF r.exactOut THEN 0 ELSE r.amount]

\* dexSwap lines 187-192: the argument of ensureSufficientBalances; exactOut
\* and swapMode are not among its fields
BalanceOpts(r) ==
    [inputNative |-> r.inputNative, outputNative |-> r.outputNative,
     amountRaw |-> r.amount]

\* ensureSufficientBalances, lines 105-137: the native balance check
EnsureNative ==
    /\ kind = "dex" /\ pc = "pre_native"
    /\ \E rpcOk \in BOOLEAN, bal \in Balances, infoOk \in BOOLEAN, exists \in BOOLEAN :
         IF ~rpcOk
         THEN /\ Throw(<<"fetch", "failed">>)
              /\ frame' = frame
         ELSE LET opts == BalanceOpts(req)
                  info == IF opts.outputNative THEN "na" ELSE LookupInfo(infoOk, exists)
                  required == Required(opts.inputNative, opts.outputNative,
                                       opts.amountRaw, RentAta, info)
              IN  /\ frame' = [on |-> TRUE, bal |-> bal, rentAta |-> RentAta,
                               ataExists |-> (~opts.outputNative /\ exists),
                               info |-> info, required |-> required]
                  /\ IF BalanceLow(bal, required)
                     THEN Throw(<<"balance_low">>)
                     ELSE pc' = "pre_token" /\ result' = result
    /\ UNCHANGED <<client, pump, db, meta, setAns, tiers, fee, kind, req, netDown, timedOut, tokenCheck, attempt, bi, qErr, lastErr,
                   fails, cause, counters, store, chain>>

\* ensureSufficientBalances, lines 139-160: the token balance check; on
\* return dexSwap computes the fee value and enters the retry loop
EnsureToken ==
    /\ kind = "dex" /\ pc = "pre_token"
    /\ \E lookupOk \in BOOLEAN, accts \in AccountLists :
         LET opts == BalanceOpts(req)
             inner == IF opts.inputNative THEN "na"
                      ELSE TokenTry(lookupOk, accts, opts.amountRaw)
         IN  /\ tokenCheck' = inner
             /\ IF inner \in {"na", "ok"} \/ TokenCatch(inner) = "continue"
                THEN /\ pc' = "quote" /\ result' = result
                     /\ fee' = [fee EXCEPT !.cu = DexFee(fee.arg)]
                ELSE Throw(<<inner>>) /\ fee' = fee
    /\ frame' = NoFrame
    /\ bi' = 1
    /\ timedOut' = TRUE
    /\ UNCHANGED <<client, pump, db, meta, setAns, tiers, kind, req, netDown, attempt, qErr, lastErr,
                   fails, cause, counters, store, chain>>

\* catch (e) of the retry loop, lines 252-259
Catch(e, class) ==
    LET m == mapAxiosErr(e)
    IN  /\ lastErr' = m
        /\ fails' = fails + 1
        /\ cause' = class
        /\ IF ShouldRethrow(m, attempt)
           THEN Throw(m)
           ELSE pc' = "sleep" /\ result' = result

\* getQuote of metis-jupiter.ts, one iteration of its loop over BASES
\* (lines 69-80), called from dexSwap line 220
QuoteStep ==
    /\ kind = "dex" /\ pc = "quote"
    /\ quoteReqs' = quoteReqs + 1
    /\ \E r \in Answers(QuoteResponses) :
         IF r = "route"
         THEN /\ pc' = "build" /\ bi' = 1 /\ qErr' = NoMsg
              /\ timedOut' = TRUE
              /\ UNCHANGED <<lastErr, fails, cause, result>>
         ELSE IF bi < Len(BASES)
         THEN /\ bi' = bi + 1 /\ qErr' = QuoteErrText(r)
              /\ timedOut' = (timedOut /\ r = "timeout")
              /\ UNCHANGED <<pc, lastErr, fails, cause, result>>
         ELSE /\ Catch(PlainError(QuoteErrText(r)), AnswerClass(r))
              /\ timedOut' = (timedOut /\ r = "timeout")
              /\ bi' = 1 /\ qErr' = NoMsg
    /\ UNCHANGED <<client, pump, db, meta, setAns, tiers, fee, kind, req, netDown, frame, tokenCheck, attempt, buildReqs, simCalls,
                   sendCalls, confCalls, relayCalls, sleeps, store, chain>>

\* buildSwapTx of metis-jupiter.ts, one iteration of its loop over BASES
\* (lines 121-161), called from dexSwap line 223: the request, and the
\* legacy-format retry against the same provider
BuildStep ==
    /\ kind = "dex" /\ pc = "build"
    /\ \E r1 \in Answers(BuildResponses), r2 \in Answers(BuildResponses) :
         LET retry == r1 \in {"400", "422"} /\ ~req.forceLegacy
             got == r1 = "tx" \/ (retry /\ r2 = "tx")
         IN  /\ buildReqs' = buildReqs + (IF retry THEN 2 ELSE 1)
             /\ fee' = [fee EXCEPT !.sent =
                            addPriorityFeeToBody(Undefined, AttemptFee(fee, tiers),
                                                 Url(BASES[bi]))]
             /\ IF got
                THEN /\ pc' = "sign" /\ bi' = 1
                     /\ timedOut' = FALSE
                     /\ UNCHANGED <<lastErr, fails, cause, result>>
                ELSE IF bi < Len(BASES)
                THEN /\ bi' = bi + 1
                     /\ timedOut' = (timedOut /\ r1 = "timeout")
                     /\ UNCHANGED <<pc, lastErr, fails, cause, result>>
                ELSE /\ Catch(PlainError(<<"swap_failed">>), AnswerClass(IF retry THEN r2 ELSE r1))
                     /\ timedOut' = (timedOut /\ r1 = "timeout")
                     /\ bi' = 1
    /\ UNCHANGED <<client, pump, db, meta, setAns, tiers, kind, req, netDown, frame, tokenCheck, attempt, qErr, quoteReqs, simCalls,
                   sendCalls, confCalls, relayCalls, sleeps, store, chain>>

\* signFromBase64Unsigned, line 233: deserialising the payload may throw
SignStep ==
    /\ kind = "dex" /\ pc = "sign"
    /\ \E ok \in BOOLEAN :
         IF ok THEN pc' = "simulate" /\ UNCHANGED <<lastErr, fails, cause, result>>
         ELSE Catch(PlainError(<<"deserialize", "failed">>), "other")
    /\ UNCHANGED <<client, pump, db, meta, setAns, tiers, fee, kind, req, netDown, timedOut, frame, tokenCheck, attempt, bi, qErr,
                   counters, store, chain>>

\* mutant: the catch block throws the simulation error on
SimCatch_Rethrow(s) == "rethrow"

\* catch { } of lines 243-246: a simulation error is dropped
SimCatch(s) == "continue"

\* lines 235-246: the optional simulation
SimStep ==
    /\ kind = "dex" /\ pc = "simulate"
    /\ simCalls' = simCalls + 1
    /\ \E s \in {"ok", "err", "throw"} :
         IF s = "ok" \/ SimCatch(s) = "continue"
         THEN pc' = "send" /\ UNCHANGED <<lastErr, fails, cause, result>>
         ELSE Catch(PlainError(<<"simulation_failed">>), "other")
    /\ UNCHANGED <<client, pump, db, meta, setAns, tiers, fee, kind, req, netDown, timedOut, frame, tokenCheck, attempt, bi, qErr, quoteReqs,
                   buildReqs, sendCalls, confCalls, relayCalls, sleeps, store, chain>>

\* sendSignedVersionedTx, sendRawTransaction (solana.js lines 20-24): the
\* node accepts the transaction or the call throws; either way the
\* transaction may have reached the network and be confirmed there
SendStep ==
    /\ kind = "dex" /\ pc = "send"
    /\ sendCalls' = sendCalls + 1
    /\ \E lands \in BOOLEAN :
         /\ landed' = lands
         /\ onchain' = IF lands THEN onchain \cup {attempt} ELSE onchain
    /\ \/ pc' = "confirm" /\ UNCHANGED <<lastErr, fails, cause, result>>
       \/ \E m \in SendErrors : Catch(PlainError(m), RpcErrClass(m))
    /\ UNCHANGED <<client, pump, db, meta, setAns, tiers, fee, kind, req, netDown, timedOut, frame, tokenCheck, attempt, bi, qErr, quoteReqs,
                   buildReqs, simCalls, confCalls, relayCalls, sleeps, store>>

\* mutant: the signature is kept and the loop goes on to its next round
Return_Continue(sig) ==
    /\ pc' = "sleep"
    /\ result' = sig

\* return sig, line 250: dexSwap ends inside the loop with the signature
Return(sig) ==
    /\ pc' = "done"
    /\ result' = sig

\* sendSignedVersionedTx, confirmTransaction (solana.js lines 25-26), and
\* dexSwap's return of the signature (line 250)
ConfirmStep ==
    /\ kind = "dex" /\ pc = "confirm"
    /\ confCalls' = confCalls + 1
    /\ \/ /\ landed
          /\ Return([tag |-> "sig", attempt |-> attempt])
          /\ UNCHANGED <<lastErr, fails, cause, chain>>
       \/ /\ \E m \in ConfirmErrors : Catch(PlainError(m), RpcErrClass(m))
          /\ \E late \in BOOLEAN :
               /\ landed' = (landed \/ late)
               /\ onchain' = IF late THEN onchain \cup {attempt} ELSE onchain
    /\ UNCHANGED <<client, pump, db, meta, setAns, tiers, fee, kind, req, netDown, timedOut, frame, tokenCheck, attempt, bi, qErr, quoteReqs,
                   buildReqs, simCalls, sendCalls, relayCalls, sleeps, store>>

\* await sleep(500 * 2^attempt), the loop increment and the loop test
\* (lines 258, 208); line 261 when the loop runs out
Sleep ==
    /\ kind = "dex" /\ pc = "sleep"
    /\ sleeps' = sleeps + 1
    /\ attempt' = attempt + 1
    /\ landed' = FALSE
    /\ IF attempt + 1 < MaxAttempts
       THEN pc' = "quote" /\ bi' = 1 /\ result' = result
       ELSE Throw(lastErr) /\ bi' = bi
    /\ quoteReqs' = 0 /\ buildReqs' = 0 /\ simCalls' = 0
    /\ sendCalls' = 0 /\ confCalls' = 0
    /\ cause' = "none"
    /\ timedOut' = TRUE
    /\ UNCHANGED <<client, pump, db, meta, setAns, tiers, fee, kind, req, netDown, frame, tokenCheck, qErr, lastErr, fails, onchain,
                   relayCalls, store>>

----------------------------------------------------------------------------
(* POST /dex/swap of index.ts, which calls dexSwap *)

\* lines 178-215: the field check and the fee resolution, then the call
DexSwapRoute ==
    /\ kind = "dex" /\ pc = "http"
    /\ IF req.amount = 0
       THEN /\ resp' = [code |-> "400", body |-> "missing_fields"]
            /\ pc' = "done"
            /\ fee' = fee
       ELSE /\ fee' = [fee EXCEPT !.arg = ResolveFee(fee.in, tiers)]
            /\ pc' = "start"
            /\ resp' = resp
    /\ UNCHANGED <<client, pump, db, meta, setAns, tiers, kind, req, netDown, timedOut, frame, tokenCheck,
                   attempt, bi, qErr, lastErr, fails, cause, counters, result,
                   useMongo, trade, writes, chain>>

\* lines 229-235: the signature, or the catch block's 500
DexSwapRespond ==
    /\ kind = "dex" /\ pc = "done" /\ fee.http /\ resp = NoResp
    /\ resp' = IF result.tag = "sig" THEN [code |-> "200", body |-> "signature"]
               ELSE [code |-> "500", body |-> "error"]
    /\ UNCHANGED <<client, pump, db, meta, setAns, tiers, fee, kind, pc, req, netDown, timedOut, frame,
                   tokenCheck, attempt, bi, qErr, lastErr, fails, cause, counters,
                   result, useMongo, trade, writes, chain>>

----------------------------------------------------------------------------
(* POST /settings/priority of index.ts, lines 151-161 *)

\* typeof value === 'number' && value >= 0
SettingAccepted(value) == IsNumber(value) /\ Ge0(value)

\* the global the request assigns: the named tier, or the default for any
\* other tier name
SettingTarget(tier) ==
    IF tier \in {"fast", "turbo", "ultra"} THEN tier ELSE "default"

\* the tier globals after the request
SetPriority(t, tier, value) ==
    IF SettingAccepted(value) THEN [t EXCEPT ![SettingTarget(tier)] = value.v] ELSE t

\* bodies of the settings requests
SettingTiers == {"fast", ""}
SettingValues == {Undefined, Num(-1), Num(7)}

\* the handler is synchronous: it runs between any two steps of a swap
\* request in flight
SettingsPriority ==
    /\ \E tier \in SettingTiers, value \in SettingValues :
         /\ tiers' = SetPriority(tiers, tier, value)
         /\ setAns' = IF SettingAccepted(value) THEN SettingTarget(tier) ELSE "400"
    /\ UNCHANGED <<client, pump, db, meta, fee, kind, pc, req, netDown, timedOut, frame,
                   tokenCheck, attempt, bi, qErr, lastErr, fails, cause, counters,
                   result, useMongo, trade, writes, resp, chain>>

----------------------------------------------------------------------------
(* The Trade Record store of db.ts *)

\* Trade.create: the Mongo schema defaults status to 'submitted' (line 29);
\* the in-memory create stores the document as given, which carries no
\* status field (lines 57-62)
TradeCreate(mongo) ==
    [status |-> IF mongo THEN "submitted" ELSE "unset", signature |-> "none"]

\* mutant: the update's signature is dropped
TradeUpdate_StatusOnly(rec, status, signature) == [rec EXCEPT !.status = status]

\* Trade.findByIdAndUpdate: Object.assign(curr, update), lines 63-69
TradeUpdate(rec, status, signature) ==
    [rec EXCEPT !.status = status, !.signature = signature]

\* a findByIdAndUpdate call of a handler on the request's record
UpdateTrade(status, signature) ==
    /\ trade' = TradeUpdate(trade, status, signature)
    /\ writes' = Append(writes, status)

----------------------------------------------------------------------------
(* The module db.ts: what it binds when it is loaded, connectDb, and the   *)
(* calls it serves.  The functions of Trade are async without an await, so *)
(* each call runs as one step however the requests interleave.              *)

\* every variable of the swap handlers
swap == <<kind, pc, req, frame, tokenCheck, attempt, bi, qErr, lastErr, landed,
          onchain, quoteReqs, buildReqs, simCalls, sendCalls, confCalls,
          relayCalls, sleeps, fails, cause, netDown, timedOut, result, useMongo,
          trade, writes, resp, conf, call, wire, setAns, tiers, fee, tradeLocal,
          relayAns, simAns, bundle, relayed>>

\* the identifiers newId() can return, taken to be distinct
Ids == 1..MaxRecords

NoDbCall == [op |-> "none", id |-> 0, ret |-> "none"]

\* lines 5-7 and 43-71: useMongo = !!cfg.mongoUrl, TradeModel unset, and
\* Trade bound to one of the two implementations by the value useMongo has
\* when the module is loaded
DbLoaded(url) ==
    [url |-> url, useMongo |-> url, model |-> FALSE,
     impl |-> IF url THEN "mongo" ELSE "memory",
     phase |-> "boot",
     mem |-> [i \in Ids |-> NoRecord], coll |-> [i \in Ids |-> NoRecord],
     last |-> NoDbCall]

\* connectDb, lines 9-40, awaited before app.listen (index.ts 375)
ConnectDb ==
    /\ db.phase = "boot"
    /\ IF ~db.useMongo
       THEN db' = [db EXCEPT !.phase = "serving"]
       ELSE \E connected \in BOOLEAN :
              db' = IF connected
                    THEN [db EXCEPT !.model = TRUE, !.phase = "serving"]
                    ELSE [db EXCEPT !.useMongo = FALSE, !.phase = "serving"]
    /\ UNCHANGED <<swap, meta>>

\* mem.set(_id, rec), lines 58-61
MemCreate(mem, id, doc) == [mem EXCEPT ![id] = doc]

\* mutant: an unknown id gets a record
MemUpdate_Upsert(mem, id, status, signature) ==
    [mem EXCEPT ![id] = TradeUpdate(mem[id], status, signature)]

\* lines 64-68: if (!curr) return null; Object.assign(curr, update)
MemUpdate(mem, id, status, signature) ==
    IF mem[id] = NoRecord THEN mem
    ELSE [mem EXCEPT ![id] = TradeUpdate(mem[id], status, signature)]

\* Trade.create(doc) of the bound implementation; TradeModel.create on an
\* unset TradeModel throws a TypeError
CreateCall ==
    /\ db.phase = "serving"
    /\ IF db.impl = "memory"
       THEN \E id \in Ids :
              /\ db.mem[id] = NoRecord
              /\ db' = [db EXCEPT !.mem = MemCreate(db.mem, id, TradeCreate(FALSE)),
                                  !.last = [op |-> "create", id |-> id, ret |-> "rec"]]
       ELSE IF db.model
       THEN \E id \in Ids :
              /\ db.coll[id] = NoRecord
              /\ db' = [db EXCEPT !.coll = MemCreate(db.coll, id, TradeCreate(TRUE)),
                                  !.last = [op |-> "create", id |-> id, ret |-> "rec"]]
       ELSE db' = [db EXCEPT !.last = [op |-> "create", id |-> 0, ret |-> "TypeError"]]
    /\ UNCHANGED <<swap, meta>>

\* Trade.findByIdAndUpdate(id, update) of the bound implementation
UpdateCall ==
    /\ db.phase = "serving"
    /\ \E id \in Ids, status \in {"confirmed", "failed"} :
         LET sig == IF status = "confirmed" THEN "sig" ELSE "none"
         IN  IF db.impl = "memory"
             THEN db' = [db EXCEPT !.mem = MemUpdate(db.mem, id, status, sig),
                                   !.last = [op |-> "update", id |-> id,
                                             ret |-> IF db.mem[id] = NoRecord
                                                     THEN "null" ELSE "rec"]]
             ELSE IF db.model
             THEN db' = [db EXCEPT !.coll = MemUpdate(db.coll, id, status, sig),
                                   !.last = [op |-> "update", id |-> id,
                                             ret |-> IF db.coll[id] = NoRecord
                                                     THEN "null" ELSE "rec"]]
             ELSE db' = [db EXCEPT !.last = [op |-> "update", id |-> id,
                                             ret |-> "TypeError"]]
    /\ UNCHANGED <<swap, meta>>

----------------------------------------------------------------------------
(* The token-metadata cache of meta.ts: _cache, _get, _set and resolveMeta *)
(* called by several requests at once.  Time is counted in ticks, the life *)
(* of an entry being TtlTicks of them.                                     *)

Mints == {"mintA", "mintB"}
Callers == 1..MaxCallers

NoEntry == [data |-> "none", exp |-> 0]
IdleCall == [pc |-> "idle", mint |-> "none", evicted |-> FALSE, ret |-> "none"]

\* const _cache = new Map(), and no call in flight
MetaLoaded ==
    [cache |-> [m \in Mints |-> NoEntry], now |-> 0,
     calls |-> [c \in Callers |-> IdleCall]]

\* mutant: an entry never expires
Expired_Never(now, exp) == FALSE

\* Date.now() > it.exp
Expired(now, exp) == now > exp

\* _get(mint): the data returned ("none" for null) and the cache afterwards
CacheGet(cache, m, now) ==
    IF cache[m] = NoEntry THEN [data |-> "none", cache |-> cache]
    ELSE IF Expired(now, cache[m].exp)
    THEN [data |-> "none", cache |-> [cache EXCEPT ![m] = NoEntry]]
    ELSE [data |-> cache[m].data, cache |-> cache]

\* _set(mint, data): exp = Date.now() + TTL_MS
CacheSet(cache, m, data, now) ==
    [cache EXCEPT ![m] = [data |-> data, exp |-> now + TtlTicks]]

\* _set(m, meta); return meta
SetAndReturn(c, data) ==
    meta' = [meta EXCEPT
                !.cache = CacheSet(meta.cache, meta.calls[c].mint, data, meta.now),
                !.calls[c].pc = "done", !.calls[c].ret = data]

\* resolveMeta up to its first await: const cached = _get(m); if (cached)
\* return cached; then the request to tokens.jup.ag is sent
ResolveMeta(c) ==
    /\ meta.calls[c].pc = "idle"
    /\ \E m \in Mints :
         LET got == CacheGet(meta.cache, m, meta.now)
         IN  meta' = [meta EXCEPT
                        !.cache = got.cache,
                        !.calls[c] =
                            [pc |-> IF got.data = "none" THEN "jup" ELSE "done",
                             mint |-> m,
                             evicted |-> (got.cache # meta.cache),
                             ret |-> got.data]]
    /\ UNCHANGED <<swap, db>>

\* fetchFromJupiter answers: a TokenMeta, or null on any failure
FetchedFromJupiter(c) ==
    /\ meta.calls[c].pc = "jup"
    /\ \E found \in BOOLEAN :
         IF found THEN SetAndReturn(c, "jup")
         ELSE meta' = [meta EXCEPT !.calls[c].pc = "dexscreener"]
    /\ UNCHANGED <<swap, db>>

\* fetchFromDexScreener answers: a TokenMeta, or null, which gives the
\* fallback value
FetchedFromDexScreener(c) ==
    /\ meta.calls[c].pc = "dexscreener"
    /\ \E found \in BOOLEAN :
         SetAndReturn(c, IF found THEN "dexscreener" ELSE "fallback")
    /\ UNCHANGED <<swap, db>>

\* the caller has taken the value
MetaReturned(c) ==
    /\ meta.calls[c].pc = "done"
    /\ meta' = [meta EXCEPT !.calls[c] = IdleCall]
    /\ UNCHANGED <<swap, db>>

\* the clock advances
Tick ==
    /\ meta.now < MaxNow
    /\ meta' = [meta EXCEPT !.now = meta.now + 1]
    /\ UNCHANGED <<swap, db>>

----------------------------------------------------------------------------
(* dexSwap of the compiled build (dist), which keeps a Trade Record *)

\* lines 156-162 of the compiled dexSwap
RkKey(k) == keypairFromInput(k, <<"Invalid", "private", "key", "length">>)

\* lines 156-171: key decoding, then Trade.create
RkEnter ==
    /\ kind = "rk" /\ pc = "start"
    /\ IF ~RkKey(req.key).ok
       THEN Throw(RkKey(req.key).msg) /\ trade' = trade
       ELSE pc' = "quote" /\ result' = result /\ trade' = TradeCreate(useMongo)
    /\ UNCHANGED <<client, pump, db, meta, setAns, tiers, fee, kind, req, netDown, timedOut, frame, tokenCheck, attempt, bi, qErr, lastErr,
                   fails, cause, counters, useMongo, writes, resp, chain>>

\* jupQuote (jupiter.js lines 5-19), called at line 172; its error propagates
RkQuote ==
    /\ kind = "rk" /\ pc = "quote"
    /\ quoteReqs' = quoteReqs + 1
    /\ \E r \in Answers(QuoteResponses) :
         IF r = "route" THEN pc' = "build" /\ result' = result
         ELSE IF r = "200" THEN Throw(<<"jup", "quote", "empty", "routePlan">>)
         ELSE IF r \in {"neterr", "timeout"} THEN Throw(<<NetCode(r)>>)
         ELSE Throw(<<"jup", "quote", "failed", r>>)
    /\ UNCHANGED <<client, pump, db, meta, setAns, tiers, fee, kind, req, netDown, timedOut, frame, tokenCheck, attempt, bi, qErr, lastErr, fails,
                   cause, buildReqs, simCalls, sendCalls, confCalls, relayCalls, sleeps,
                   store, chain>>

\* jupBuildSwapTx (jupiter.js lines 20-36), called at line 179
RkBuild ==
    /\ kind = "rk" /\ pc = "build"
    /\ buildReqs' = buildReqs + 1
    /\ \E r \in Answers(BuildResponses) :
         IF r = "tx" THEN pc' = "simulate" /\ result' = result
         ELSE IF r \in {"neterr", "timeout"} THEN Throw(<<NetCode(r)>>)
         ELSE Throw(<<"jup", "swap", "build", "failed", r>>)
    /\ UNCHANGED <<client, pump, db, meta, setAns, tiers, fee, kind, req, netDown, timedOut, frame, tokenCheck, attempt, bi, qErr, lastErr, fails,
                   cause, quoteReqs, simCalls, sendCalls, confCalls, relayCalls, sleeps,
                   store, chain>>

\* lines 185-193: a reported simulation error marks the record failed and
\* throws inside the try block, whose catch continues
RkSim ==
    /\ kind = "rk" /\ pc = "simulate"
    /\ simCalls' = simCalls + 1
    /\ \E s \in {"ok", "err", "throw"} :
         IF s = "err" THEN UpdateTrade("failed", trade.signature)
         ELSE UNCHANGED <<trade, writes>>
    /\ pc' = "send"
    /\ UNCHANGED <<client, pump, db, meta, setAns, tiers, fee, kind, req, netDown, timedOut, frame, tokenCheck, attempt, bi, qErr, lastErr, fails,
                   cause, quoteReqs, buildReqs, sendCalls, confCalls, relayCalls, sleeps,
                   result, useMongo, resp, chain>>

\* lines 194-195: sign and sendRawTransaction
RkSend ==
    /\ kind = "rk" /\ pc = "send"
    /\ sendCalls' = sendCalls + 1
    /\ \E lands \in BOOLEAN :
         /\ landed' = lands
         /\ onchain' = IF lands THEN onchain \cup {attempt} ELSE onchain
    /\ \/ pc' = "confirm" /\ result' = result
       \/ \E m \in SendErrors : Throw(m)
    /\ UNCHANGED <<client, pump, db, meta, setAns, tiers, fee, kind, req, netDown, timedOut, frame, tokenCheck, attempt, bi, qErr, lastErr, fails,
                   cause, quoteReqs, buildReqs, simCalls, confCalls, relayCalls, sleeps,
                   store>>

\* lines 196-198: confirmTransaction, then the record is marked confirmed
RkConfirm ==
    /\ kind = "rk" /\ pc = "confirm"
    /\ confCalls' = confCalls + 1
    /\ \/ /\ landed
          /\ UpdateTrade("confirmed", "sig")
          /\ pc' = "done" /\ result' = [tag |-> "sig", attempt |-> attempt]
          /\ UNCHANGED chain
       \/ /\ \E m \in ConfirmErrors : Throw(m)
          /\ \E late \in BOOLEAN :
               /\ landed' = (landed \/ late)
               /\ onchain' = IF late THEN onchain \cup {attempt} ELSE onchain
          /\ UNCHANGED <<trade, writes>>
    /\ UNCHANGED <<client, pump, db, meta, setAns, tiers, fee, kind, req, netDown, timedOut, frame, tokenCheck, attempt, bi, qErr, lastErr, fails,
                   cause, quoteReqs, buildReqs, simCalls, sendCalls, relayCalls, sleeps,
                   useMongo, resp>>

----------------------------------------------------------------------------
(* POST /pumpfun/swap of index.ts *)

Respond(code, body) ==
    /\ resp' = [code |-> code, body |-> body]
    /\ pc' = "done"

\* the handler's outer catch, lines 366-370
PfFail(msg) ==
    /\ UpdateTrade("failed", trade.signature)
    /\ Respond("500", "error")
    /\ result' = ErrResult(msg)

\* keypairFromInput(privateKey), line 257
PfKey(k) == keypairFromInput(k, <<"Private", "key", "must", "be", "64", "bytes">>)

\* lines 241-267: the field check, then keypairFromInput and Trade.create,
\* both outside any try block; TradeModel.create rejects when the
\* connection is lost or the document fails the schema (an action other
\* than buy, sell, swap)
PfEnter ==
    /\ kind = "pf" /\ pc = "start"
    /\ IF req.amount = 0
       THEN Respond("400", "missing_fields") /\ UNCHANGED <<result, trade>>
       ELSE IF ~PfKey(req.key).ok
       THEN Throw(PfKey(req.key).msg)
            /\ UNCHANGED <<resp, trade>>
       ELSE \E stored \in (IF useMongo THEN BOOLEAN ELSE {TRUE}) :
              IF stored
              THEN /\ trade' = TradeCreate(useMongo)
                   /\ pc' = IF req.useJito THEN "bundle_build" ELSE "single_build"
                   /\ UNCHANGED <<result, resp>>
              ELSE Throw(<<"Trade", "validation", "failed">>)
                   /\ UNCHANGED <<resp, trade>>
    /\ UNCHANGED <<client, pump, db, meta, setAns, tiers, fee, kind, req, netDown, timedOut, frame, tokenCheck, attempt, bi, qErr, lastErr,
                   fails, cause, counters, useMongo, writes, chain>>

\* priorityFee = 0.0001 of the handler's destructuring, in lamports
PumpDefaultFee == 100000
\* x.priorityFee ?? 0.0001 of tradeLocalBundle
BundleDefaultFee == 100000
\* req.priorityFee ?? 0.00005 of tradeLocalSingle
SingleDefaultFee == 50000

\* the handler's priorityFee: the body's value, or the default when absent
PumpFee(pf) == IF pf = Undefined THEN Num(PumpDefaultFee) ELSE pf

\* Math.max(1, Number(bundleCount))
BundleLength(bundleCount) == Max(1, bundleCount)

\* Array.from({ length }).map((_, i) => ({ ..., priorityFee: i === 0 ?
\* Number(priorityFee) : 0 })), lines 272-280: the priorityFee of each element
BundleBody(n, pf) == [i \in 1..n |-> IF i = 1 THEN pf ELSE Num(0)]

\* mutant: no test of the position, and || in place of ??
Normalized_DefaultAll(body) ==
    [i \in 1..Len(body) |->
        IF body[i] \in {Undefined, Num(0)} THEN Num(BundleDefaultFee) ELSE body[i]]

\* body.map((x, i) => ({ ..., priorityFee: i === 0 ? (x.priorityFee ??
\* 0.0001) : 0 })) of tradeLocalBundle, pumpfun.ts lines 35-44
Normalized(body) ==
    [i \in 1..Len(body) |->
        IF i = 1 THEN (IF body[i] = Undefined THEN Num(BundleDefaultFee) ELSE body[i])
        ELSE Num(0)]

\* mutant: the payload always carries the default
SinglePayloadFee_Default(pf) == Num(SingleDefaultFee)

\* priorityFee: req.priorityFee ?? 0.00005 of tradeLocalSingle's payload
SinglePayloadFee(pf) == IF pf = Undefined THEN Num(SingleDefaultFee) ELSE pf

\* r.data of tradeLocalBundle, the base58 unsigned transactions: any number
\* of them, numbered in the order returned, of which one may be bytes that
\* do not deserialize
BundleArrays ==
    {[i \in 1..n |-> [tx |-> i, wellFormed |-> i # bad]] :
        n \in 0..MaxBundle, bad \in 0..MaxBundle}

\* signFromBase58Unsigned(b58, kp) and bs58.encode(vtx.serialize()): the
\* transaction with the signature of kp
Sign(b58) == [tx |-> b58.tx, signer |-> "kp"]

\* mutant: the list is built back to front
SignedList_Reversed(arr) == [i \in 1..Len(arr) |-> Sign(arr[Len(arr) + 1 - i])]

\* arr.map((b58) => ...), lines 283-286
SignedList(arr) == [i \in 1..Len(arr) |-> Sign(arr[i])]

\* lines 271-286: tradeLocalBundle and the signing of every transaction;
\* VersionedTransaction.deserialize throws on bytes that are no transaction
PfBundleBuild ==
    /\ kind = "pf" /\ pc = "bundle_build"
    /\ buildReqs' = buildReqs + 1
    /\ tradeLocal' =
          Append(tradeLocal,
                 [api |-> "bundle",
                  priorityFee |-> Normalized(BundleBody(BundleLength(req.bundleCount),
                                                        PumpFee(req.priorityFee)))])
    /\ \E ok \in (IF netDown THEN {FALSE} ELSE BOOLEAN), arr \in BundleArrays :
         IF ~ok
         THEN /\ PfFail(<<"pumpfun", "bundle", "trade-local", "failed">>)
              /\ bundle' = bundle
         ELSE IF \E i \in 1..Len(arr) : ~arr[i].wellFormed
         THEN /\ PfFail(<<"deserialize", "failed">>)
              /\ bundle' = [built |-> TRUE, arr |-> arr, signedList |-> << >>]
         ELSE /\ pc' = "relay" /\ UNCHANGED <<result, trade, writes, resp>>
              /\ bundle' = [built |-> TRUE, arr |-> arr, signedList |-> SignedList(arr)]
    /\ UNCHANGED <<client, relayAns, simAns, relayed, db, meta, setAns, tiers, fee, kind, req, netDown, timedOut, frame, tokenCheck, attempt, bi, qErr, lastErr, fails,
                   cause, quoteReqs, simCalls, sendCalls, confCalls, relayCalls, sleeps,
                   useMongo, chain>>

\* answers of the relay: accepted, an error status, or no answer
RelayResponses == {"200", "429", "500", "503", "neterr"}

\* the message sendBundleToJito throws (jito.js lines 6-9)
RelayErrText(r) ==
    IF r = "429" THEN <<"jito", "rate-limited", "(429)">>
    ELSE IF r = "neterr" THEN <<"ECONNREFUSED">>
    ELSE <<"jito", "error", r, "body">>

\* mutant: every relay error starts the fallback
RelayFallback_AnyError(msg) == TRUE

\* msg.includes('rate-limited') || msg.includes('503'), line 292
RelayFallback(msg) ==
    \E i \in 1..Len(msg) : msg[i] = "rate-limited" \/ msg[i] = "503"

\* lines 288-331: sendBundleToJito and what follows its outcome
PfRelay ==
    /\ kind = "pf" /\ pc = "relay"
    /\ relayCalls' = relayCalls + 1
    /\ relayed' = Append(relayed, bundle.signedList)
    /\ \E r \in RelayResponses :
         /\ relayAns' = r
         /\ IF r = "200"
            THEN /\ UpdateTrade("submitted", "bundle_sent")
                 /\ Respond("200", "bundle_submitted")
                 /\ result' = result
            ELSE IF RelayFallback(RelayErrText(r))
            THEN pc' = "fb_build" /\ UNCHANGED <<result, trade, writes, resp>>
            ELSE PfFail(RelayErrText(r))
    /\ UNCHANGED <<client, tradeLocal, simAns, bundle, db, meta, setAns, tiers, fee, kind, req, netDown, timedOut, frame, tokenCheck, attempt, bi, qErr, lastErr, fails,
                   cause, quoteReqs, buildReqs, simCalls, sendCalls, confCalls, sleeps,
                   useMongo, chain>>

\* tradeLocalSingle and signFromBase64Unsigned
PfBuild(from, to) ==
    /\ kind = "pf" /\ pc = from
    /\ buildReqs' = buildReqs + 1
    /\ tradeLocal' =
          Append(tradeLocal,
                 [api |-> "single",
                  priorityFee |-> <<SinglePayloadFee(PumpFee(req.priorityFee))>>])
    /\ \E ok \in (IF netDown THEN {FALSE} ELSE BOOLEAN) :
         IF ok THEN pc' = to /\ UNCHANGED <<result, trade, writes, resp>>
         ELSE PfFail(<<"pumpfun", "trade-local", "failed">>)
    /\ UNCHANGED <<client, relayAns, simAns, bundle, relayed, db, meta, setAns, tiers, fee, kind, req, netDown, timedOut, frame, tokenCheck, attempt, bi, qErr, lastErr, fails,
                   cause, quoteReqs, simCalls, sendCalls, confCalls, relayCalls, sleeps,
                   useMongo, chain>>

\* the answers of simulateTransaction: no error, sim.value.err, or the call
\* throws
SimResponses == {"ok", "err", "throw"}

\* catch {} of lines 322 and 362: whatever the try block threw is dropped
PfSimCatch(e) == "continue"

\* the simulation block, lines 303-322 and 343-362: a reported error marks
\* the record failed and answers 400.  The try block holds the
\* simulateTransaction call and also the findByIdAndUpdate and the
\* response, so catch {} drops an exception of the call and a rejection of
\* the update alike (TradeModel.findByIdAndUpdate rejects when the
\* connection is lost, the in-memory update never does)
PfSim(from, to) ==
    /\ kind = "pf" /\ pc = from
    /\ simCalls' = simCalls + 1
    /\ \E s \in SimResponses, updated \in (IF useMongo THEN BOOLEAN ELSE {TRUE}) :
         /\ simAns' = IF s = "err" /\ ~updated THEN "err_update_rejected" ELSE s
         /\ IF s = "err" /\ updated
            THEN /\ UpdateTrade("failed", trade.signature)
                 /\ Respond("400", "simulation_failed")
                 /\ result' = result
            ELSE IF s = "ok" \/ PfSimCatch(s) = "continue"
            THEN pc' = to /\ UNCHANGED <<trade, writes, resp, result>>
            ELSE PfFail(<<"simulation", "threw">>)
    /\ UNCHANGED <<client, tradeLocal, relayAns, bundle, relayed, db, meta, setAns, tiers, fee, kind, req, netDown, timedOut, frame, tokenCheck, attempt, bi, qErr, lastErr, fails,
                   cause, quoteReqs, buildReqs, sendCalls, confCalls, relayCalls, sleeps,
                   useMongo, chain>>

\* sendSignedVersionedTx, the record marked confirmed, the response
PfSend(from, body) ==
    /\ kind = "pf" /\ pc = from
    /\ sendCalls' = sendCalls + 1
    /\ \E lands \in BOOLEAN :
         /\ landed' = lands
         /\ onchain' = IF lands THEN onchain \cup {attempt} ELSE onchain
         /\ \/ /\ lands
               /\ confCalls' = confCalls + 1
               /\ UpdateTrade("confirmed", "sig")
               /\ Respond("200", body)
               /\ result' = [tag |-> "sig", attempt |-> attempt]
            \/ /\ confCalls' = confCalls
               /\ \E m \in SendErrors : PfFail(m)
            \/ /\ confCalls' = confCalls + 1
               /\ \E m \in ConfirmErrors : PfFail(m)
    /\ UNCHANGED <<client, pump, db, meta, setAns, tiers, fee, kind, req, netDown, timedOut, frame, tokenCheck, attempt, bi, qErr, lastErr, fails,
                   cause, quoteReqs, buildReqs, simCalls, relayCalls, sleeps, useMongo>>

\* the 429 fallback inside the relay's catch block, lines 293-324
PfFallbackBuild == PfBuild("fb_build", "fb_sim")
PfFallbackSim == PfSim("fb_sim", "fb_send")
PfFallbackSend == PfSend("fb_send", "signature_fallback")

\* the non-bundle path, lines 333-365
PfSingleBuild == PfBuild("single_build", "single_sim")
PfSingleSim == PfSim("single_sim", "single_send")
PfSingleSend == PfSend("single_send", "signature")


----------------------------------------------------------------------------
(* The provider fallback client of metis-jupiter.ts: getQuote and          *)
(* buildSwapTx called on their own, one upstream request per step.  URLs   *)
(* are character strings so that the header test is computed on the text.  *)

\* process.env.METIS_BASE and process.env.JUP_API_KEY: set or not
Configs == [metis : BOOLEAN, key : BOOLEAN]

\* headersFor(base): the names of the headers it returns
headersFor(key, base) ==
    {"User-Agent"} \cup (IF key /\ Test(ApiJupAg, base) THEN {"X-API-KEY"} ELSE {})

\* r.data of a quote answer: absent, or an object in which each of the three
\* fields is truthy or not
NoBody == [present |-> FALSE, routePlan |-> FALSE, outAmount |-> FALSE,
           otherAmountThreshold |-> FALSE]
QuoteBodies ==
    {NoBody} \cup [present : {TRUE}, routePlan : BOOLEAN, outAmount : BOOLEAN,
                   otherAmountThreshold : BOOLEAN]
FullBody == [present |-> TRUE, routePlan |-> TRUE, outAmount |-> TRUE,
             otherAmountThreshold |-> TRUE]

\* what axios.get(.../quote) gives: a response of any status (validateStatus
\* accepts all), or it rejects without a response
QuoteAnswers ==
    [t : {"http"}, status : {"200"}, data : QuoteBodies]
    \cup [t : {"http"}, status : {"500"}, data : {NoBody, FullBody}]
    \cup [t : {"http"}, status : {"429"}, data : {NoBody}]
    \cup [t : {"neterr", "timeout"}, status : {"none"}, data : {NoBody}]

\* mutant: the status of the answer is not looked at
QuoteAccepted_AnyStatus(status, data) ==
    data.present /\ (data.routePlan \/ data.outAmount \/ data.otherAmountThreshold)

\* mutant: only a route plan counts as a quote
QuoteAccepted_RoutePlanOnly(status, data) ==
    status = "200" /\ data.present /\ data.routePlan

\* r.status === 200 && r.data && (r.data.routePlan || r.data.outAmount ||
\* r.data.otherAmountThreshold), line 72
QuoteAccepted(status, data) ==
    status = "200" /\ data.present
    /\ (data.routePlan \/ data.outAmount \/ data.otherAmountThreshold)

\* lastErr || 'quote_failed', line 80
QuoteFailure(e) == IF e = NoMsg THEN <<"quote_failed">> ELSE e

\* one iteration of getQuote's loop, lines 69-79, and the throw of line 80
\* when it was the last one
GetQuoteStep ==
    /\ kind = "client" /\ call.fn = "getQuote" /\ call.out = NoResult
    /\ \E a \in QuoteAnswers :
         LET base == BasesOf(conf)[call.bi]
             sent == [base |-> base, path |-> "/quote", legacy |-> call.legacy,
                      headers |-> headersFor(conf.key, Url(base)), ans |-> a]
             e == QuoteErrText(IF a.t = "http" THEN a.status ELSE a.t)
         IN  /\ wire' = Append(wire, sent)
             /\ IF a.t = "http" /\ QuoteAccepted(a.status, a.data)
                THEN call' = [call EXCEPT !.out = [tag |-> "ok", data |-> a.data,
                                                   from |-> base]]
                ELSE IF call.bi < Len(BasesOf(conf))
                THEN call' = [call EXCEPT !.bi = @ + 1, !.lastErr = e]
                ELSE call' = [call EXCEPT !.lastErr = e,
                                          !.out = ErrResult(QuoteFailure(e))]
    /\ UNCHANGED <<pump, db, meta, setAns, tiers, fee, kind, pc, req, frame, tokenCheck, attempt, bi, qErr, lastErr,
                   fails, cause, netDown, timedOut, result, counters, store, chain,
                   conf>>

\* what axios.post(.../swap) gives; tx says whether r.data.swapTransaction
\* is there
BuildAnswers ==
    {[t |-> "http", status |-> "200", tx |-> TRUE],
     [t |-> "http", status |-> "200", tx |-> FALSE],
     [t |-> "http", status |-> "400", tx |-> FALSE],
     [t |-> "http", status |-> "422", tx |-> TRUE],
     [t |-> "http", status |-> "500", tx |-> FALSE],
     [t |-> "neterr", status |-> "none", tx |-> FALSE]}

\* mutant: the status of the answer is not looked at
BuildAccepted_AnyStatus(status, tx) == tx

\* r.status === 200 && r.data?.swapTransaction, lines 135-140 and 155
BuildAccepted(status, tx) == status = "200" /\ tx

\* mutant: every answer that is not a 200 is retried in legacy format
LegacyRetry_AnyError(status, asLegacy) == status # "200" /\ ~asLegacy

\* (r.status === 400 || r.status === 422) && !requestBody.asLegacyTransaction,
\* line 147
LegacyRetry(status, asLegacy) == status \in {"400", "422"} /\ ~asLegacy

\* the end of an iteration of buildSwapTx's loop that returned nothing:
\* the next base, or throw new Error('swap_failed') of line 161
BuildNextBase ==
    IF call.bi < Len(BasesOf(conf))
    THEN call' = [call EXCEPT !.bi = @ + 1, !.retry = FALSE]
    ELSE call' = [call EXCEPT !.retry = FALSE, !.out = ErrResult(<<"swap_failed">>)]

BuildReturn(base) ==
    call' = [call EXCEPT !.retry = FALSE,
                         !.out = [tag |-> "ok", data |-> "swapTransaction",
                                  from |-> base]]

\* the first request of an iteration of buildSwapTx's loop, lines 122-147
BuildSwapTxStep ==
    /\ kind = "client" /\ call.fn = "buildSwapTx" /\ call.out = NoResult
    /\ ~call.retry
    /\ \E a \in BuildAnswers :
         LET base == BasesOf(conf)[call.bi]
             sent == [base |-> base, path |-> "/swap", legacy |-> call.legacy,
                      headers |-> {"Content-Type"} \cup headersFor(conf.key, Url(base)),
                      ans |-> a]
         IN  /\ wire' = Append(wire, sent)
             /\ IF a.t = "http" /\ BuildAccepted(a.status, a.tx)
                THEN BuildReturn(base)
                ELSE IF a.t = "http" /\ LegacyRetry(a.status, call.legacy)
                THEN call' = [call EXCEPT !.retry = TRUE]
                ELSE BuildNextBase
    /\ UNCHANGED <<pump, db, meta, setAns, tiers, fee, kind, pc, req, frame, tokenCheck, attempt, bi, qErr, lastErr,
                   fails, cause, netDown, timedOut, result, counters, store, chain,
                   conf>>

\* the legacy-format request to the same base, lines 148-156
BuildSwapTxRetry ==
    /\ kind = "client" /\ call.fn = "buildSwapTx" /\ call.out = NoResult
    /\ call.retry
    /\ \E a \in BuildAnswers :
         LET base == BasesOf(conf)[call.bi]
             sent == [base |-> base, path |-> "/swap", legacy |-> TRUE,
                      headers |-> {"Content-Type"} \cup headersFor(conf.key, Url(base)),
                      ans |-> a]
         IN  /\ wire' = Append(wire, sent)
             /\ IF a.t = "http" /\ BuildAccepted(a.status, a.tx)
                THEN BuildReturn(base)
                ELSE BuildNextBase
    /\ UNCHANGED <<pump, db, meta, setAns, tiers, fee, kind, pc, req, frame, tokenCheck, attempt, bi, qErr, lastErr,
                   fails, cause, netDown, timedOut, result, counters, store, chain,
                   conf>>

\* the calls: getQuote(p), and buildSwapTx(opts) with opts.asLegacyTransaction
\* set or not
Calls ==
    [fn : {"getQuote"}, bi : {1}, lastErr : {NoMsg}, legacy : {FALSE},
     retry : {FALSE}, out : {NoResult}]
    \cup [fn : {"buildSwapTx"}, bi : {1}, lastErr : {NoMsg}, legacy : BOOLEAN,
          retry : {FALSE}, out : {NoResult}]

----------------------------------------------------------------------------

\* the priorityFee of a /pumpfun/swap body: absent, 0 or 0.00002 SOL
PumpFees == {Undefined, Num(0), Num(20000)}

\* the record-keeping dexSwap reads neither the swap direction nor the
\* legacy flag; /pumpfun/swap takes a mint, an action and useJito
RkRequests ==
    [key : PlainKeys, inputNative : BOOLEAN, outputNative : BOOLEAN,
     amount : 1..MaxAmount, forceLegacy : {FALSE}, useJito : {FALSE}]
PfRequests ==
    [key : PlainKeys, inputNative : {TRUE}, outputNative : {FALSE},
     amount : 0..MaxAmount, forceLegacy : {FALSE}, useJito : {FALSE},
     priorityFee : PumpFees, bundleCount : {1}]
    \cup [key : PlainKeys, inputNative : {TRUE}, outputNative : {FALSE},
          amount : 0..MaxAmount, forceLegacy : {FALSE}, useJito : {TRUE},
          priorityFee : PumpFees, bundleCount : 0..MaxBundle]

Requests(k) ==
    IF k = "dex" THEN DexRequests ELSE IF k = "rk" THEN RkRequests ELSE PfRequests

\* no request has been handled yet
Idle ==
    /\ frame = NoFrame
    /\ tokenCheck = "none"
    /\ attempt = 0
    /\ bi = 1
    /\ qErr = NoMsg
    /\ lastErr = NoMsg
    /\ landed = FALSE
    /\ onchain = {}
    /\ cause = "none"
    /\ timedOut = FALSE
    /\ quoteReqs = 0 /\ buildReqs = 0 /\ simCalls = 0 /\ sendCalls = 0
    /\ confCalls = 0 /\ relayCalls = 0 /\ sleeps = 0 /\ fails = 0
    /\ result = NoResult
    /\ trade = NoRecord
    /\ writes = << >>
    /\ resp = NoResp

Init ==
    /\ kind \in Kinds
    /\ req \in Requests(kind)
    /\ useMongo \in (IF kind = "dex" THEN {FALSE} ELSE BOOLEAN)
    /\ netDown \in BOOLEAN
    /\ pc = "start"
    /\ Idle
    /\ conf = [metis |-> FALSE, key |-> FALSE]
    /\ call = NoCall
    /\ wire = << >>
    /\ tiers = EnvTiers(0)
    /\ setAns = "none"
    /\ db = DbLoaded(useMongo)
    /\ meta = MetaLoaded
    /\ fee = FeeOf(FALSE, NoFeeInput)
    /\ tradeLocal = << >>
    /\ relayAns = "none"
    /\ simAns = "none"
    /\ bundle = NoBundle
    /\ relayed = << >>

Next ==
    \/ DexEnter
    \/ EnsureNative
    \/ EnsureToken
    \/ QuoteStep
    \/ BuildStep
    \/ SignStep
    \/ SimStep
    \/ SendStep
    \/ ConfirmStep
    \/ Sleep
    \/ RkEnter
    \/ RkQuote
    \/ RkBuild
    \/ RkSim
    \/ RkSend
    \/ RkConfirm
    \/ PfEnter
    \/ PfBundleBuild
    \/ PfRelay
    \/ PfFallbackBuild
    \/ PfFallbackSim
    \/ PfFallbackSend
    \/ PfSingleBuild
    \/ PfSingleSim
    \/ PfSingleSend

Spec == Init /\ [][Next]_vars

\* getQuote or buildSwapTx called on its own, under any configuration
\* the same request under the assumption that every awaited call returns or
\* times out (axios timeouts of 12 and 15 seconds, the RPC calls of web3.js,
\* the timer of sleep): a step that can be taken is taken
SpecFair == Init /\ [][Next]_vars /\ WF_vars(Next)

\* the same entry points with the privateKey written in every way; the
\* other fields of the request are those of a plain swap
KeyRequests(k) ==
    {[r EXCEPT !.key = key] :
        r \in {q \in Requests(k) : q.key.bytes = SecretKeyLength /\ q.amount = MaxAmount
                                   /\ ~q.forceLegacy /\ ~q.useJito},
        key \in Keys}

InitKey ==
    /\ kind \in Kinds
    /\ req \in KeyRequests(kind)
    /\ useMongo \in (IF kind = "dex" THEN {FALSE} ELSE BOOLEAN)
    /\ netDown = FALSE
    /\ pc = "start"
    /\ Idle
    /\ conf = [metis |-> FALSE, key |-> FALSE]
    /\ call = NoCall
    /\ wire = << >>
    /\ tiers = EnvTiers(0)
    /\ setAns = "none"
    /\ db = DbLoaded(useMongo)
    /\ meta = MetaLoaded
    /\ fee = FeeOf(FALSE, NoFeeInput)
    /\ tradeLocal = << >>
    /\ relayAns = "none"
    /\ simAns = "none"
    /\ bundle = NoBundle
    /\ relayed = << >>

NextKey ==
    \/ DexEnter
    \/ EnsureNative
    \/ EnsureToken
    \/ QuoteStep
    \/ BuildStep
    \/ SignStep
    \/ SimStep
    \/ SendStep
    \/ ConfirmStep
    \/ Sleep
    \/ RkEnter
    \/ RkQuote
    \/ RkBuild
    \/ RkSim
    \/ RkSend
    \/ RkConfirm
    \/ PfEnter
    \/ PfSingleBuild
    \/ PfSingleSim
    \/ PfSingleSend

SpecKey == InitKey /\ [][NextKey]_vars

\* the process from the loading of db.ts on, with or without a Mongo URL
InitDb ==
    /\ kind = "db"
    /\ req = NoRequest
    /\ useMongo = FALSE
    /\ netDown = FALSE
    /\ pc = "done"
    /\ Idle
    /\ conf = [metis |-> FALSE, key |-> FALSE]
    /\ call = NoCall
    /\ wire = << >>
    /\ tiers = EnvTiers(0)
    /\ setAns = "none"
    /\ db \in {DbLoaded(url) : url \in BOOLEAN}
    /\ meta = MetaLoaded
    /\ fee = FeeOf(FALSE, NoFeeInput)
    /\ tradeLocal = << >>
    /\ relayAns = "none"
    /\ simAns = "none"
    /\ bundle = NoBundle
    /\ relayed = << >>

NextDb ==
    \/ ConnectDb
    \/ CreateCall
    \/ UpdateCall

SpecDb == InitDb /\ [][NextDb]_vars

\* the metadata cache, empty, and its callers
InitMeta ==
    /\ kind = "meta"
    /\ req = NoRequest
    /\ useMongo = FALSE
    /\ netDown = FALSE
    /\ pc = "done"
    /\ Idle
    /\ conf = [metis |-> FALSE, key |-> FALSE]
    /\ call = NoCall
    /\ wire = << >>
    /\ tiers = EnvTiers(0)
    /\ setAns = "none"
    /\ db = DbLoaded(FALSE)
    /\ meta = MetaLoaded
    /\ fee = FeeOf(FALSE, NoFeeInput)
    /\ tradeLocal = << >>
    /\ relayAns = "none"
    /\ simAns = "none"
    /\ bundle = NoBundle
    /\ relayed = << >>

NextMeta ==
    \/ \E c \in Callers : ResolveMeta(c)
    \/ \E c \in Callers : FetchedFromJupiter(c)
    \/ \E c \in Callers : FetchedFromDexScreener(c)
    \/ \E c \in Callers : MetaReturned(c)
    \/ Tick

SpecMeta == InitMeta /\ [][NextMeta]_vars

\* dexSwap with the exactOut field of SwapParams written out: line 182 turns
\* it into the swapMode of the quote, lines 187-192 run the balance preflight
DirectedRequests ==
    {[inputNative |-> r.inputNative, outputNative |-> r.outputNative,
      amount |-> r.amount, key |-> r.key, forceLegacy |-> r.forceLegacy,
      useJito |-> r.useJito, exactOut |-> e] : r \in DexRequests, e \in BOOLEAN}

InitDirection ==
    /\ kind = "dex"
    /\ req \in DirectedRequests
    /\ useMongo = FALSE
    /\ netDown = FALSE
    /\ pc = "start"
    /\ Idle
    /\ conf = [metis |-> FALSE, key |-> FALSE]
    /\ call = NoCall
    /\ wire = << >>
    /\ tiers = EnvTiers(0)
    /\ setAns = "none"
    /\ db = DbLoaded(useMongo)
    /\ meta = MetaLoaded
    /\ fee = FeeOf(FALSE, NoFeeInput)
    /\ tradeLocal = << >>
    /\ relayAns = "none"
    /\ simAns = "none"
    /\ bundle = NoBundle
    /\ relayed = << >>

NextDirection ==
    \/ DexEnter
    \/ EnsureNative
    \/ EnsureToken

SpecDirection == InitDirection /\ [][NextDirection]_vars

InitClient ==
    /\ kind = "client"
    /\ req = NoRequest
    /\ useMongo = FALSE
    /\ netDown = FALSE
    /\ pc = "start"
    /\ Idle
    /\ conf \in Configs
    /\ call \in Calls
    /\ wire = << >>
    /\ tiers = EnvTiers(0)
    /\ setAns = "none"
    /\ db = DbLoaded(useMongo)
    /\ meta = MetaLoaded
    /\ fee = FeeOf(FALSE, NoFeeInput)
    /\ tradeLocal = << >>
    /\ relayAns = "none"
    /\ simAns = "none"
    /\ bundle = NoBundle
    /\ relayed = << >>

NextClient ==
    \/ GetQuoteStep
    \/ BuildSwapTxStep
    \/ BuildSwapTxRetry

SpecClient == InitClient /\ [][NextClient]_vars

\* the requests POST /dex/swap is checked with: native input and output
HttpRequests ==
    [key : PlainKeys, inputNative : {TRUE}, outputNative : {TRUE},
     amount : 0..MaxAmount, forceLegacy : {FALSE}, useJito : {FALSE}]

\* a POST /dex/swap request with any fee inputs, under any tier default
InitHttp ==
    /\ kind = "dex"
    /\ req \in HttpRequests
    /\ useMongo = FALSE
    /\ netDown = FALSE
    /\ pc = "http"
    /\ Idle
    /\ conf = [metis |-> FALSE, key |-> FALSE]
    /\ call = NoCall
    /\ wire = << >>
    /\ tiers \in {EnvTiers(d) : d \in TierDefaults}
    /\ setAns = "none"
    /\ db = DbLoaded(useMongo)
    /\ meta = MetaLoaded
    /\ fee \in {FeeOf(TRUE, in) : in \in FeeInputs}
    /\ tradeLocal = << >>
    /\ relayAns = "none"
    /\ simAns = "none"
    /\ bundle = NoBundle
    /\ relayed = << >>

NextHttp ==
    \/ DexSwapRoute
    \/ DexEnter
    \/ EnsureNative
    \/ EnsureToken
    \/ QuoteStep
    \/ BuildStep
    \/ SignStep
    \/ SimStep
    \/ SendStep
    \/ ConfirmStep
    \/ Sleep
    \/ DexSwapRespond

SpecHttp == InitHttp /\ [][NextHttp]_vars

\* a POST /dex/swap request with its fields present and a 64-byte key,
\* handled while POST /settings/priority requests arrive; the process starts
\* with the tier values of its environment
SettingsFeeInputs ==
    [priorityFee : {Undefined, Num(100000)},
     computeUnitPriceMicroLamports : {Undefined, Num(7)},
     priorityTier : {"", "fast"}]

InitSettings ==
    /\ kind = "dex"
    /\ req \in {r \in HttpRequests : r.key.bytes = SecretKeyLength /\ r.amount = 1}
    /\ useMongo = FALSE
    /\ netDown = FALSE
    /\ pc = "http"
    /\ Idle
    /\ conf = [metis |-> FALSE, key |-> FALSE]
    /\ call = NoCall
    /\ wire = << >>
    /\ tiers = EnvTiers(0)
    /\ setAns = "none"
    /\ db = DbLoaded(useMongo)
    /\ meta = MetaLoaded
    /\ fee \in {FeeOf(TRUE, in) : in \in SettingsFeeInputs}
    /\ tradeLocal = << >>
    /\ relayAns = "none"
    /\ simAns = "none"
    /\ bundle = NoBundle
    /\ relayed = << >>

NextSettings ==
    \/ DexSwapRoute
    \/ DexEnter
    \/ EnsureNative
    \/ EnsureToken
    \/ QuoteStep
    \/ BuildStep
    \/ SignStep
    \/ SimStep
    \/ SendStep
    \/ ConfirmStep
    \/ Sleep
    \/ DexSwapRespond
    \/ SettingsPriority

SpecSettings == InitSettings /\ [][NextSettings]_vars

----------------------------------------------------------------------------
(* Claims about the pipeline *)

Terminal == {"confirmed", "failed"}
Created == trade # NoRecord
PreflightDone == tokenCheck # "none"

\* C1: retrying dexSwap after a transient failure never leaves two
\* independent submissions of the same request confirmed on chain.
C1_NoDoubleConfirm ==
    kind = "dex" => Cardinality(onchain) <= 1

\* C2: once a terminal status (confirmed or failed) has been written to the
\* Trade Record, no later step of the request writes a different status.
C2_TerminalOnce ==
    \A i \in 1..Len(writes) : \A j \in 1..Len(writes) :
        (i < j /\ writes[i] \in Terminal) => writes[j] = writes[i]

\* C3: when a swap that created a Trade Record has failed (an error is
\* thrown to the caller or an error response is sent), the record's status
\* is failed.
C3_FailedBeforePropagating ==
    (pc = "done" /\ Created /\ (result.tag = "error" \/ resp.code \in {"400", "500"}))
        => trade.status = "failed"

\* C4: a valid request for which every provider is unreachable on every call
\* ends with an error, never a signature, and its Trade Record ends failed.
C4_UnreachableEndsFailed ==
    (netDown /\ pc = "done" /\ (IF kind = "dex" THEN PreflightDone ELSE Created))
        => (result.tag = "error" /\ trade.status = "failed")

\* the first half of C4 alone: the swap ends with an error, never a signature
C4_UnreachableEndsInError ==
    (netDown /\ pc = "done" /\ (IF kind = "dex" THEN PreflightDone ELSE Created))
        => result.tag = "error"

\* C5: a dexSwap request whose native balance is below the required amount
\* fails with balance_low and has sent no quote and no build request; no
\* quote or build request is sent before the preflight has completed.
C5_BalanceLowBeforeQuote ==
    kind = "dex" =>
        /\ (frame.on /\ frame.bal < frame.required) =>
              /\ pc = "done" /\ result = ErrResult(<<"balance_low">>)
              /\ quoteReqs = 0 /\ buildReqs = 0 /\ attempt = 0 /\ fails = 0
        /\ (quoteReqs > 0 \/ buildReqs > 0 \/ attempt > 0) => PreflightDone

C5_Witness ==
    /\ kind = "dex" /\ frame.on /\ frame.bal = frame.required - 1
    /\ pc = "done" /\ result = ErrResult(<<"balance_low">>)

\* C6: when the input is a token, the lookup succeeded and the summed raw
\* amount is below the requested amount, the swap fails with
\* token_balance_low before any quote or build request.
C6_TokenBalanceLowFails ==
    tokenCheck = "token_balance_low" =>
        /\ pc = "done" /\ result = ErrResult(<<"token_balance_low">>)
        /\ quoteReqs = 0 /\ buildReqs = 0 /\ attempt = 0

\* C7 as stated: required = 10000 + (amount + rent if the input is native)
\* + (rent if the output is a token whose associated account does not
\* exist), and balance_low is raised exactly when balance < required.
C7_RequiredAsStated ==
    (kind = "dex" /\ frame.on) =>
        /\ frame.required =
              10000
              + (IF req.inputNative THEN req.amount + frame.rentAta ELSE 0)
              + (IF ~req.outputNative /\ ~frame.ataExists THEN frame.rentAta ELSE 0)
        /\ (pc = "done" /\ result = ErrResult(<<"balance_low">>))
              <=> frame.bal < frame.required

\* C7 amended: the rent for the output account is added when the lookup of
\* the associated token account succeeded and found no account; a lookup
\* that throws adds nothing.
C7_RequiredFromLookup ==
    (kind = "dex" /\ frame.on) =>
        /\ frame.required =
              10000
              + (IF req.inputNative THEN req.amount + frame.rentAta ELSE 0)
              + (IF ~req.outputNative /\ frame.info = "missing" THEN frame.rentAta ELSE 0)
        /\ (pc = "done" /\ result = ErrResult(<<"balance_low">>))
              <=> frame.bal < frame.required

C7_Witness ==
    /\ kind = "dex" /\ frame.on /\ req.inputNative /\ ~req.outputNative
    /\ frame.info = "missing" /\ frame.bal = frame.required /\ pc = "pre_token"

\* C8: when the token-account lookup itself throws, the preflight does not
\* fail: the swap goes on to the quote step with nothing else changed.
C8_LookupErrorSkipsCheck ==
    [][(pc = "pre_token" /\ tokenCheck' = "lookup_error")
          => /\ pc' = "quote" /\ bi' = 1 /\ attempt' = attempt
             /\ result' = NoResult /\ fails' = 0
             /\ quoteReqs' = 0 /\ buildReqs' = 0]_vars

C8_Witness ==
    kind = "dex" /\ tokenCheck = "lookup_error" /\ pc = "build"

\* C9: an attempt that failed on a connection error, an HTTP 5xx or an HTTP
\* 429 of any step is retried unless it was the third attempt; no more than
\* 3 attempts are made.
C9_TransientRetried ==
    kind = "dex" =>
        /\ attempt < 3
        /\ (pc = "done" /\ result.tag = "error" /\ cause \in {"net", "5xx", "429"})
              => attempt = 2

\* C10: a terminal failure in any attempt, and any failure on the third
\* attempt, ends dexSwap with that error at once: no sleep, and no step at
\* all once dexSwap has ended.
C10_TerminalEndsAtOnce ==
    [][/\ (kind = "dex" => pc # "done")
       /\ (kind = "dex" /\ fails' = fails + 1 /\ (cause' = "other" \/ attempt = 2))
             => /\ pc' = "done" /\ result' = ErrResult(lastErr')
                /\ sleeps' = sleeps /\ attempt' = attempt]_vars

C10_Witness ==
    /\ kind = "dex" /\ pc = "done" /\ attempt = 1 /\ fails = 2
    /\ cause = "other" /\ result = ErrResult(lastErr) /\ sleeps = 1

\* C11: a failure while confirming an already-submitted transaction never
\* triggers a new quote, build or submit attempt: the catch block entered
\* from the confirmation ends dexSwap, it never goes on to the backoff sleep
\* that precedes the next attempt.
C11_ConfirmFailureNotRetried ==
    [][(kind = "dex" /\ pc = "confirm" /\ fails' = fails + 1)
          => (pc' = "done" /\ attempt' = attempt)]_vars

\* C12: an attempt that failed because its quote calls or its build calls
\* exceeded their timeout is retried while attempts remain: dexSwap ends
\* with such a failure only on the third attempt.
C12_TimeoutRetried ==
    (kind = "dex" /\ pc = "done" /\ result.tag = "error" /\ timedOut)
        => attempt = LastAttempt

\* the quote half of C12: timed-out quote calls are retried
C12_QuoteTimeoutRetried ==
    (kind = "dex" /\ pc = "done" /\ result.tag = "error" /\ timedOut
        /\ lastErr # <<"swap_failed">>)
        => attempt = LastAttempt

----------------------------------------------------------------------------
(* Claims about the provider fallback client *)

\* a quote answer the claims call acceptable: status 200 and a body with a
\* route plan, an output amount or a minimum-output threshold
ValidRoute(a) ==
    /\ a.t = "http" /\ a.status = "200" /\ a.data.present
    /\ (a.data.routePlan \/ a.data.outAmount \/ a.data.otherAmountThreshold)

\* the error text a quote answer leaves behind
QuoteAnswerText(a) ==
    IF a.t = "http" THEN <<"quote", a.status, "body">>
    ELSE <<"network_error", "to", "url",
           IF a.t = "timeout" THEN "ECONNABORTED" ELSE "ECONNREFUSED">>

\* C13: getQuote asks the providers in list order; it returns a response
\* only if that response is a 200 with a route plan, an output amount or a
\* minimum-output threshold, and it goes on to the next provider after any
\* other answer or a transport error; with the list exhausted it fails with
\* the error text of the last provider tried.
C13_QuoteAcceptance ==
    call.fn = "getQuote" =>
        LET n == Len(wire)
            B == BasesOf(conf)
        IN  /\ n <= Len(B)
            /\ \A i \in 1..n : wire[i].base = B[i] /\ wire[i].path = "/quote"
            /\ \A i \in 1..(n - 1) : ~ValidRoute(wire[i].ans)
            /\ call.out = NoResult =>
                  /\ n < Len(B) /\ call.bi = n + 1
                  /\ n >= 1 => ~ValidRoute(wire[n].ans)
            /\ call.out.tag = "ok" =>
                  /\ n >= 1 /\ ValidRoute(wire[n].ans)
                  /\ call.out.data = wire[n].ans.data
            /\ call.out.tag = "error" =>
                  /\ n = Len(B) /\ ~ValidRoute(wire[n].ans)
                  /\ call.out.msg = QuoteAnswerText(wire[n].ans)

C13_Witness ==
    /\ call.fn = "getQuote" /\ call.out.tag = "error" /\ Len(wire) = 4
    /\ wire[1].ans.status = "500" /\ wire[1].ans.data.routePlan
    /\ wire[2].ans.t = "timeout"
    /\ wire[3].ans.status = "200" /\ ~wire[3].ans.data.present
    /\ wire[4].ans.status = "429"
    /\ call.out.msg = <<"quote", "429", "body">>

\* C14: when an earlier provider answered HTTP 500 to the quote request and
\* a later provider answered with a valid route, getQuote has returned the
\* later provider's response, no error, and has contacted no provider after
\* that one.
C14_LaterProviderWins ==
    call.fn = "getQuote" =>
        \A i \in 1..Len(wire) : \A j \in 1..Len(wire) :
            (i < j /\ wire[i].ans.status = "500" /\ ValidRoute(wire[j].ans)) =>
                /\ call.out.tag = "ok"
                /\ call.out.data = wire[j].ans.data
                /\ call.out.from = wire[j].base
                /\ j = Len(wire)

C14_Witness ==
    /\ call.fn = "getQuote" /\ call.out.tag = "ok"
    /\ Len(wire) = 2 /\ Len(BasesOf(conf)) = 4
    /\ wire[1].ans.status = "500"
    /\ wire[2].ans.data = [NoBody EXCEPT !.present = TRUE, !.outAmount = TRUE]
    /\ call.out.from = "METIS_BASE"

\* the requests a buildSwapTx call has sent to one provider
SentTo(b) == {i \in 1..Len(wire) : wire[i].base = b}
BaseIndex(b) == CHOOSE k \in 1..Len(BasesOf(conf)) : BasesOf(conf)[k] = b

\* C15: in buildSwapTx a provider that answers 400 or 422 to a request
\* without the legacy flag gets exactly one more request, with the legacy
\* flag set, before the next provider is tried; after any other answer the
\* provider gets no second request; no provider gets more than two requests
\* and the providers are tried in list order.
C15_OneLegacyRetry ==
    call.fn = "buildSwapTx" =>
        LET n == Len(wire)
            First(i) == i = 1 \/ wire[i - 1].base # wire[i].base
            Asks(i) == /\ First(i) /\ ~wire[i].legacy
                       /\ wire[i].ans.status \in {"400", "422"}
        IN  /\ \A i \in 1..n :
                  /\ wire[i].path = "/swap"
                  /\ Cardinality(SentTo(wire[i].base)) <= 2
                  /\ i < n => BaseIndex(wire[i].base) <= BaseIndex(wire[i + 1].base)
                  /\ ~First(i) => (Asks(i - 1) /\ wire[i].legacy)
                  /\ (Asks(i) /\ i < n) =>
                        /\ wire[i + 1].base = wire[i].base /\ wire[i + 1].legacy
                        /\ Cardinality(SentTo(wire[i].base)) = 2
                  /\ (Asks(i) /\ i = n) =>
                        /\ call.out = NoResult /\ call.retry
                        /\ BasesOf(conf)[call.bi] = wire[i].base
            /\ (n >= 1 /\ ~Asks(n) /\ call.out = NoResult) =>
                  (~call.retry /\ BaseIndex(wire[n].base) = call.bi - 1)

C15_Witness ==
    /\ call.fn = "buildSwapTx" /\ ~call.legacy /\ Len(wire) = 4
    /\ wire[1].ans.status = "500"
    /\ wire[2].ans.status = "422" /\ ~wire[2].legacy
    /\ wire[3].base = wire[2].base /\ wire[3].legacy /\ wire[3].ans.status = "400"
    /\ wire[4].base # wire[3].base

\* C16: buildSwapTx returns a transaction only from an answer with status
\* 200 that carries a swapTransaction, and that answer is the last one it
\* received; if no provider, legacy retries included, gave such an answer,
\* it fails with swap_failed after all providers have been tried.
C16_BuildAcceptance ==
    call.fn = "buildSwapTx" =>
        LET n == Len(wire)
            Good(a) == a.t = "http" /\ a.status = "200" /\ a.tx
        IN  /\ \A i \in 1..(n - 1) : ~Good(wire[i].ans)
            /\ call.out = NoResult => (n >= 1 => ~Good(wire[n].ans))
            /\ call.out.tag = "ok" =>
                  /\ n >= 1 /\ Good(wire[n].ans)
                  /\ call.out.from = wire[n].base
            /\ call.out.tag = "error" =>
                  /\ call.out.msg = <<"swap_failed">>
                  /\ \A i \in 1..n : ~Good(wire[i].ans)
                  /\ \A k \in 1..Len(BasesOf(conf)) : SentTo(BasesOf(conf)[k]) # {}

C16_Witness ==
    /\ call.fn = "buildSwapTx" /\ call.out = ErrResult(<<"swap_failed">>)
    /\ Len(wire) = 5
    /\ wire[1].ans.status = "422" /\ wire[1].ans.tx
    /\ wire[2].ans.status = "422" /\ wire[2].ans.tx /\ wire[2].legacy
    /\ wire[3].ans.status = "200" /\ ~wire[3].ans.tx

\* the host of a URL: what stands between "://" and the next "/"
HostOf(u) ==
    LET from == (CHOOSE i \in 1..Len(u) : u[i] = ":" /\ \A k \in 1..(i - 1) : u[k] # ":") + 3
        ends == {j \in from..Len(u) : u[j] = "/"}
        to == IF ends = {} THEN Len(u)
              ELSE (CHOOSE j \in ends : \A k \in ends : j <= k) - 1
    IN  SubSeq(u, from, to)

\* C17: with an API key configured, a quote or build request carries the
\* X-API-KEY header if and only if the host of its provider is api.jup.ag;
\* without a key no request carries it.
C17_KeyOnlyToIssuer ==
    \A i \in 1..Len(wire) :
        ("X-API-KEY" \in wire[i].headers)
            <=> (conf.key /\ HostOf(Url(wire[i].base)) = ApiJupAg)

----------------------------------------------------------------------------
(* Claims about the fee of a POST /dex/swap request *)

\* the fee inputs a request carries: a SOL amount above 0, a compute-unit
\* price above 0, a named tier
HasPriorityFee == Gt0(fee.in.priorityFee)
HasCuPrice == Gt0(fee.in.computeUnitPriceMicroLamports)
HasTier == ToLowerCase(fee.in.priorityTier) \in {"fast", "turbo", "ultra"}
SeveralFeeInputs ==
    \/ HasPriorityFee /\ HasCuPrice
    \/ HasPriorityFee /\ HasTier
    \/ HasCuPrice /\ HasTier

\* the value of the named tier
TierValue ==
    LET l == ToLowerCase(fee.in.priorityTier)
    IN  IF l = "fast" THEN tiers.fast ELSE IF l = "turbo" THEN tiers.turbo ELSE tiers.ultra

\* a build request has been sent for the request
BuildSent == fee.http /\ buildReqs > 0

\* C18 as stated: with more than one fee input the build request carries
\* the explicit compute-unit price if there is one, else the conversion of
\* the SOL amount, else the value of the named tier.
C18_CuPriceFirst ==
    (BuildSent /\ SeveralFeeInputs) =>
        fee.sent.computeUnitPriceMicroLamports =
            IF HasCuPrice THEN fee.in.computeUnitPriceMicroLamports
            ELSE IF HasPriorityFee THEN computeFromSol(fee.in.priorityFee)
            ELSE Num(TierValue)

\* C18 amended: with more than one fee input the build request carries the
\* conversion of the SOL amount if there is one, else the explicit
\* compute-unit price, else the value of the named tier; it is the only fee
\* field of the request.
C18_SolAmountFirst ==
    (BuildSent /\ SeveralFeeInputs) =>
        /\ fee.sent.computeUnitPriceMicroLamports =
              IF HasPriorityFee THEN computeFromSol(fee.in.priorityFee)
              ELSE IF HasCuPrice THEN fee.in.computeUnitPriceMicroLamports
              ELSE Num(TierValue)
        /\ fee.sent.prioritizationFeeLamports = Undefined

C18_Witness ==
    /\ BuildSent /\ HasPriorityFee /\ HasCuPrice /\ HasTier
    /\ fee.in.computeUnitPriceMicroLamports = Num(7)
    /\ fee.sent.computeUnitPriceMicroLamports = Num(500)
    /\ pc = "sign"

\* a fee preference that is zero or missing
ZeroOrMissing(x) == x = Undefined \/ x = Num(0)

\* C19: when the SOL amount and the compute-unit price are zero or missing,
\* no tier is named and the default is 0, the build request carries no fee
\* field.
C19_ZeroIsUnset ==
    (/\ BuildSent
     /\ ZeroOrMissing(fee.in.priorityFee)
     /\ ZeroOrMissing(fee.in.computeUnitPriceMicroLamports)
     /\ fee.in.priorityTier = "" /\ tiers.default = 0)
        => fee.sent = NoFee

\* the part of C19 that holds: the same with the compute-unit price missing
C19_MissingIsUnset ==
    (/\ BuildSent
     /\ ZeroOrMissing(fee.in.priorityFee)
     /\ fee.in.computeUnitPriceMicroLamports = Undefined
     /\ fee.in.priorityTier = "" /\ tiers.default = 0)
        => fee.sent = NoFee

\* a fee preference that is negative or not finite
NegativeOrNonFinite(x) == x.t = "Infinity" \/ (x.t = "number" /\ x.v < 0)

\* C20: a request whose SOL amount or compute-unit price is negative or not
\* finite goes no further than the handler: no quote, build or submit call
\* is made for it, and the response it gets is an error.
C20_BadFeeRejected ==
    (/\ fee.http /\ req.amount > 0
     /\ \/ NegativeOrNonFinite(fee.in.priorityFee)
        \/ NegativeOrNonFinite(fee.in.computeUnitPriceMicroLamports))
        => /\ pc \in {"http", "done"}
           /\ quoteReqs = 0 /\ buildReqs = 0 /\ sendCalls = 0
           /\ resp # NoResp => resp.code \in {"400", "500"}

\* C21: when dexSwap is given a priorityFee above 0 and no compute-unit
\* price, the compute-unit price of its build requests is
\* max(1, floor(priorityFee * 5,000,000)): with priorityFee = v lamports,
\* that is 1 when v * 5,000,000 < 1,000,000,000 (v < 200) and otherwise the
\* whole number q with q * 200 <= v < (q + 1) * 200.
C21_FeeConversion ==
    (BuildSent /\ Gt0(fee.arg.priorityFee) /\ fee.arg.cu = Undefined) =>
        LET v == fee.arg.priorityFee.v
            out == fee.sent.computeUnitPriceMicroLamports
        IN  /\ fee.sent.prioritizationFeeLamports = Undefined
            /\ IF fee.arg.priorityFee.t = "Infinity" THEN out = Infinity
               ELSE /\ out.t = "number"
                    /\ IF v < 200 THEN out.v = 1
                       ELSE out.v * 200 <= v /\ v < (out.v + 1) * 200

\* priorityFee 0.0001 SOL gives 500
C21_Witness ==
    /\ BuildSent /\ fee.arg = [priorityFee |-> Num(100000), cu |-> Undefined]
    /\ fee.sent.computeUnitPriceMicroLamports = Num(500)

\* a priorityFee below 1/5,000,000 SOL gives the minimum, 1
C21_WitnessMinimum ==
    /\ BuildSent /\ fee.arg = [priorityFee |-> Num(100), cu |-> Undefined]
    /\ fee.sent.computeUnitPriceMicroLamports = Num(1)

----------------------------------------------------------------------------
(* Claims about POST /pumpfun/swap *)

\* the priorityFee the caller of /pumpfun/swap asked for: 0.0001 SOL when
\* the body has none
CallerFee == IF req.priorityFee = Undefined THEN Num(100000) ELSE req.priorityFee

\* C22: the bundle build request has max(1, bundleCount) elements; its
\* first element carries the caller's priorityFee and every other element
\* carries priorityFee 0.
C22_FeeOnFirstOnly ==
    kind = "pf" =>
        \A k \in 1..Len(tradeLocal) :
            tradeLocal[k].api = "bundle" =>
                LET fees == tradeLocal[k].priorityFee
                IN  /\ Len(fees) = (IF req.bundleCount < 1 THEN 1 ELSE req.bundleCount)
                    /\ fees[1] = CallerFee
                    /\ \A i \in 2..Len(fees) : fees[i] = Num(0)

C22_Witness ==
    /\ kind = "pf" /\ req.bundleCount = 3 /\ pc = "relay"
    /\ tradeLocal = <<[api |-> "bundle",
                       priorityFee |-> <<Num(20000), Num(0), Num(0)>>]>>

SingleBuilds == SelectSeq(tradeLocal, LAMBDA e : e.api = "single")

\* the fallback answered with fallback: true and the record is confirmed
FallbackConfirmed ==
    /\ resp = [code |-> "200", body |-> "signature_fallback"]
    /\ trade = [status |-> "confirmed", signature |-> "sig"]
    /\ simCalls = 1 /\ sendCalls = 1

Mentions(msg, word) == \E i \in 1..Len(msg) : msg[i] = word

\* the relay error ended the request: nothing was built or submitted after
\* it, the record is failed and the response is the error
RelayErrorTerminal ==
    /\ pc = "done"
    /\ SingleBuilds = << >> /\ simCalls = 0 /\ sendCalls = 0
    /\ trade.status = "failed" /\ writes = <<"failed">>
    /\ resp = [code |-> "500", body |-> "error"]

----------------------------------------------------------------------------
(* Claims about the stages of dexSwap *)

\* C26: in dexSwap the step after the simulation is always the submission
\* of the signed transaction: whatever the simulation call did (threw,
\* reported an on-chain error, succeeded) the attempt goes on to send, no
\* failure is counted, and the send step submits the transaction.
C26_SimulationBestEffort ==
    [][/\ (kind = "dex" /\ pc = "simulate") =>
              /\ pc' = "send"
              /\ simCalls' = simCalls + 1
              /\ UNCHANGED <<attempt, fails, lastErr, result, sendCalls>>
       /\ (kind = "dex" /\ pc = "send") => sendCalls' = sendCalls + 1]_vars

C26_Witness ==
    /\ kind = "dex" /\ attempt = 1 /\ pc = "confirm"
    /\ simCalls = 1 /\ sendCalls = 1

\* the stage dexSwap is in; during the backoff sleep, the stage the failed
\* attempt had reached
Stage ==
    IF pc = "quote" THEN 1
    ELSE IF pc = "build" THEN 2
    ELSE IF pc = "sign" THEN 3
    ELSE IF pc = "simulate" THEN 4
    ELSE IF pc = "send" THEN 5
    ELSE IF pc = "confirm" THEN 6
    ELSE IF pc = "done" THEN 7
    ELSE IF pc = "sleep"
    THEN (IF confCalls > 0 THEN 6
          ELSE IF sendCalls > 0 THEN 5
          ELSE IF simCalls > 0 THEN 4
          ELSE IF lastErr = <<"deserialize", "failed">> THEN 3
          ELSE IF buildReqs > 0 THEN 2
          ELSE 1)
    ELSE 0

\* C27 as stated: no step of dexSwap leads from a later stage back to an
\* earlier one.
C27_NeverBack == [][kind = "dex" => Stage' >= Stage]_vars

\* the stages that may follow each stage within one attempt
StageSuccessors ==
    [quote |-> {"quote", "build"}, build |-> {"build", "sign"},
     sign |-> {"simulate"}, simulate |-> {"send"}, send |-> {"confirm"},
     confirm |-> {"done"}]

\* C27 amended: within one attempt the stages are visited in the order
\* quoting, building, signing, simulating, submitting, confirming, final
\* outcome, each step leading to the same stage, the next one, the backoff
\* sleep or the final outcome; the attempt number changes only in the
\* backoff sleep, which leads back to quoting or to the final outcome.
C27_OrderWithinAttempt ==
    [][kind = "dex" =>
        /\ attempt' = attempt => Stage' >= Stage
        /\ pc \in DOMAIN StageSuccessors =>
              pc' \in StageSuccessors[pc] \cup {"sleep", "done"}
        /\ attempt' # attempt =>
              /\ pc = "sleep" /\ attempt' = attempt + 1
              /\ pc' \in {"quote", "done"}]_vars

C27_Witness ==
    /\ kind = "dex" /\ attempt = 1 /\ fails = 1 /\ pc = "confirm"
    /\ lastErr = <<"429", "Too Many Requests">>

----------------------------------------------------------------------------
(* Claims about the Trade Record and the response *)

\* C28: from its creation until its first update the request's Trade
\* Record has status 'submitted', whichever store holds it.
C28_SubmittedUntilUpdated ==
    (trade # NoRecord /\ writes = << >>) => trade.status = "submitted"

\* C29: a /pumpfun/swap request whose handler has ended has been answered.
C29_FailureAnswered ==
    (kind = "pf" /\ pc = "done") => resp # NoResp

----------------------------------------------------------------------------
(* Claims about termination *)

\* C30: dexSwap makes at most 3 attempts (numbered 0 to 2, with at most two
\* backoff sleeps and three failures); within an attempt it sends at most
\* one quote request and two build requests per configured provider and
\* submits at most one transaction; and when every awaited call returns,
\* it ends with a signature or with an error.
C30_Terminates ==
    /\ [](kind = "dex" =>
            /\ attempt < MaxAttempts /\ sleeps <= MaxAttempts - 1
            /\ fails <= MaxAttempts
            /\ quoteReqs <= Len(BASES)
            /\ buildReqs <= 2 * Len(BASES)
            /\ sendCalls <= 1)
    /\ <>(kind = "dex" => (pc = "done" /\ result.tag \in {"sig", "error"}))

C30_Witness ==
    /\ kind = "dex" /\ pc = "done" /\ attempt = 2 /\ fails = 3 /\ sleeps = 2
    /\ result.tag = "error"

----------------------------------------------------------------------------
(* Claims about requests handled concurrently *)

\* the /dex/swap request has passed the field check and resolved its fee
Resolved == fee.http /\ pc # "http" /\ resp.code # "400"

\* the request names its fee itself: a priorityFee above 0 or a
\* compute-unit price of 0 or more
ExplicitFee ==
    \/ (IsNumber(fee.in.priorityFee) /\ Gt0(fee.in.priorityFee))
    \/ (IsNumber(fee.in.computeUnitPriceMicroLamports)
        /\ Ge0(fee.in.computeUnitPriceMicroLamports))

C37_FeeResolvedOnce ==
    /\ [](BuildSent =>
            fee.sent.computeUnitPriceMicroLamports = DexFee(fee.arg))
    /\ [][(fee.http /\ pc # "http") =>
            /\ fee'.arg = fee.arg
            /\ pc \notin {"start", "pre_native", "pre_token"} => fee'.cu = fee.cu]_vars

C37_Witness ==
    /\ BuildSent /\ attempt = 1 /\ fee.in.priorityTier = "fast"
    /\ ~ExplicitFee /\ tiers.fast = 7
    /\ fee.sent.computeUnitPriceMicroLamports = Num(500)

----------------------------------------------------------------------------
(* Claims about the signer input *)

\* the messages of a refused key
KeyErrors ==
    {<<"invalid", "private", "key", "format">>, <<"bad", "secret", "key", "size">>,
     <<"Non-base58", "character">>, <<"Invalid", "private", "key", "length">>,
     <<"Private", "key", "must", "be", "64", "bytes">>}

KeyRefused == pc = "done" /\ result.tag = "error" /\ result.msg \in KeyErrors

\* C32: once the entry point has read the key, a key of 64 bytes written as
\* a JSON array, as hex with or without 0x, or as base58 has not been
\* refused, and any other key has been refused with no Trade Record created
\* and no upstream call made.
C32_KeyEncodings ==
    pc # "start" =>
        IF req.key.form \in {"array", "hex", "0xhex", "base58"}
           /\ req.key.bytes = SecretKeyLength
        THEN ~KeyRefused
        ELSE /\ KeyRefused /\ trade = NoRecord
             /\ quoteReqs = 0 /\ buildReqs = 0 /\ sendCalls = 0

----------------------------------------------------------------------------
(* Claims about the Trade Record store *)

\* C33: in the in-memory store no call removes a record; findByIdAndUpdate
\* changes no record but the one with its id, and for an id the store does
\* not hold it returns null and changes nothing; create adds a record under
\* a new id and changes no other.
C33_MemoryFrame ==
    [][(db.impl = "memory" /\ db' # db /\ db.phase = "serving") =>
        LET c == db'.last
        IN  /\ \A j \in Ids : db.mem[j] # NoRecord => db'.mem[j] # NoRecord
            /\ \A j \in Ids \ {c.id} : db'.mem[j] = db.mem[j]
            /\ c.op = "update" =>
                  IF db.mem[c.id] = NoRecord
                  THEN c.ret = "null" /\ db'.mem = db.mem
                  ELSE c.ret = "rec"
            /\ c.op = "create" => db.mem[c.id] = NoRecord /\ c.ret = "rec"]_vars

C33_Witness ==
    /\ db.impl = "memory"
    /\ db.mem[1].status = "confirmed" /\ db.mem[2].status = "unset"
    /\ db.mem[3] = NoRecord
    /\ db.last = [op |-> "update", id |-> 3, ret |-> "null"]

\* C34: when a Mongo URL is configured and connectDb could not connect,
\* Trade is the in-memory implementation and no call to it fails.
C34_FallbackServes ==
    (db.url /\ db.phase = "serving" /\ ~db.useMongo) =>
        (db.impl = "memory" /\ db.last.ret # "TypeError")

----------------------------------------------------------------------------
(* Claims about the token-metadata cache *)

\* caller c's resolveMeta returns in this step
Returns(c) == meta.calls[c].pc # "done" /\ meta'.calls[c].pc = "done"

\* C40: when resolveMeta(m) returns, the cache holds for m an entry whose
\* expiry time has not passed and whose data is the value returned, the
\* fallback value included; and a lookup that finds an expired entry
\* deletes it and goes on to fetch.
C40_CacheFresh ==
    [][\A c \in Callers :
        /\ Returns(c) =>
              LET m == meta'.calls[c].mint
                  it == meta'.cache[m]
              IN  /\ it # NoEntry
                  /\ it.data = meta'.calls[c].ret
                  /\ meta'.now <= it.exp
        /\ (meta.calls[c].pc = "idle" /\ meta'.calls[c].pc # "idle") =>
              LET m == meta'.calls[c].mint
              IN  (meta.cache[m] # NoEntry /\ meta.now > meta.cache[m].exp) =>
                      /\ meta'.cache[m] = NoEntry
                      /\ meta'.calls[c].pc = "jup"]_vars

C40_Witness ==
    \E c \in Callers :
        /\ meta.calls[c] = [pc |-> "done", mint |-> "mintA", evicted |-> TRUE,
                            ret |-> "fallback"]
        /\ meta.cache["mintA"] = [data |-> "fallback", exp |-> meta.now + TtlTicks]

\* the same request with the other swap direction
Twin(r) == [r EXCEPT !.exactOut = ~@]

\* C35: the balance preflight does not look at the swap direction: whatever
\* the native check and the token check make of a request under given RPC
\* answers is what they make of the request that differs only in exactOut
C35_DirectionBlind ==
    [][/\ (kind = "dex" /\ pc = "pre_native" /\ frame'.on) =>
            LET o == BalanceOpts(Twin(req))
                required == Required(o.inputNative, o.outputNative, o.amountRaw,
                                     frame'.rentAta, frame'.info)
            IN  /\ frame'.required = required
                /\ BalanceLow(frame'.bal, required) =>
                       pc' = "done" /\ result' = ErrResult(<<"balance_low">>)
                /\ ~BalanceLow(frame'.bal, required) =>
                       pc' = "pre_token" /\ result' = result
       /\ (kind = "dex" /\ pc = "pre_token" /\ pc' # pc) =>
            LET o == BalanceOpts(Twin(req))
            IN  /\ \E lookupOk \in BOOLEAN, accts \in AccountLists :
                     tokenCheck' = IF o.inputNative THEN "na"
                                   ELSE TokenTry(lookupOk, accts, o.amountRaw)
                /\ pc' = "quote" /\ result' = result]_vars

\* an ExactOut request passed the native check with amountLamports counted
\* as spent
C35_Witness ==
    /\ kind = "dex" /\ req.exactOut /\ req.inputNative /\ pc = "pre_token"
    /\ frame.on /\ frame.required = BaseFee + req.amount + RentAta
    /\ frame.bal = frame.required

\* C36: in one dexSwap call sendSignedVersionedTx returns a signature at most
\* once: the signature it returns is dexSwap's result at once, it is that of
\* the transaction submitted in the current attempt, and no quote, build,
\* simulation or submission follows it; every submission is of a
\* transaction quoted and built in the attempt that submits it, and an
\* attempt submits once.
C36_OneSubmissionReturns ==
    [][kind = "dex" =>
        /\ result'.tag = "sig" =>
              /\ pc' = "done" /\ result'.attempt = attempt' /\ landed'
              /\ attempt' \in onchain'
        /\ result.tag = "sig" =>
              /\ result' = result /\ attempt' = attempt
              /\ UNCHANGED <<quoteReqs, buildReqs, simCalls, sendCalls, confCalls>>
        /\ sendCalls' # sendCalls /\ sendCalls' # 0 =>
              /\ quoteReqs >= 1 /\ buildReqs >= 1 /\ sendCalls = 0
              /\ attempt' = attempt /\ attempt \notin onchain]_vars

\* the second attempt's submission returned its signature
C36_Witness ==
    /\ kind = "dex" /\ pc = "done" /\ result = [tag |-> "sig", attempt |-> 1]
    /\ sleeps = 1 /\ quoteReqs >= 1 /\ buildReqs >= 1 /\ sendCalls = 1

\* C38: in /pumpfun/swap, single path and 429-fallback path, a simulation
\* that reports an on-chain error ends the request with the Trade Record
\* failed and the answer 400 simulation_failed, and nothing is submitted;
\* a simulation call that throws is ignored and the handler goes on to the
\* submission.
C38_SimulationGate ==
    kind = "pf" =>
        /\ simAns \in {"err", "err_update_rejected"} =>
              /\ pc = "done" /\ sendCalls = 0
              /\ trade.status = "failed"
              /\ resp = [code |-> "400", body |-> "simulation_failed"]
        /\ simAns = "throw" =>
              \/ pc \in {"single_send", "fb_send"} /\ resp = NoResp
              \/ pc = "done" /\ sendCalls = 1

\* the half of C38 that holds: a simulation call that throws never stops
\* the submission, and a reported error whose record update succeeded does
C38_WithRecordUpdated ==
    kind = "pf" =>
        /\ simAns = "err" =>
              /\ pc = "done" /\ sendCalls = 0
              /\ trade.status = "failed"
              /\ resp = [code |-> "400", body |-> "simulation_failed"]
        /\ simAns = "throw" =>
              \/ pc \in {"single_send", "fb_send"} /\ resp = NoResp
              \/ pc = "done" /\ sendCalls = 1

\* C39: the list handed to the relay holds, for each unsigned transaction
\* that the bundle build returned, that transaction signed, one each and in
\* the order returned; the relay is called once with the whole list, never
\* once per transaction and never again.
C39_WholeListOnce ==
    kind = "pf" =>
        /\ Len(relayed) = relayCalls /\ relayCalls <= 1
        /\ \A k \in 1..Len(relayed) :
              /\ Len(relayed[k]) = Len(bundle.arr)
              /\ \A i \in 1..Len(bundle.arr) :
                    relayed[k][i] = [tx |-> bundle.arr[i].tx, signer |-> "kp"]
        /\ relayCalls = 1 <=>
              (bundle.built /\ (\A i \in 1..Len(bundle.arr) : bundle.arr[i].wellFormed)
                 /\ pc # "relay")

\* a bundle of three went to the relay in one call
C39_Witness ==
    /\ kind = "pf" /\ Len(bundle.arr) = MaxBundle /\ relayAns = "200"
    /\ relayCalls = 1 /\ Len(relayed) = 1 /\ Len(relayed[1]) = MaxBundle
    /\ relayed[1][1].tx = 1 /\ relayed[1][MaxBundle].tx = MaxBundle
    /\ resp = [code |-> "200", body |-> "bundle_submitted"]

====
